---- MODULE Spec2Model ----
(***************************************************************************)
(* A model of the multi-user chat system: the datagram server              *)
(* (server_udp.py), the datagram client (client_udp.py), the stream server *)
(* (server.py) and the codec they share (protocol.py).                     *)
(*                                                                         *)
(* Conventions.  A Python dict is a TLA+ function whose domain is the set  *)
(* of keys present; d.get(k, default) is Get(d, k, default).  Python None  *)
(* is None (for strings and objects) or NoneInt (for sequence numbers).    *)
(* Wall-clock time is not represented: whether `time.time() - timestamp`   *)
(* exceeds RETRANSMISSION_TIMEOUT when the scheduler looks at an entry is  *)
(* a nondeterministic choice of the scheduler's step.                      *)
(***************************************************************************)
EXTENDS Integers, Sequences, FiniteSets, TLC

(***************************************************************************)
(* Bounds of the model and constants of the program.                       *)
(***************************************************************************)
\* Largest sequence number a peer puts on a datagram, and the cap on every
\* outbound sequence counter.
MaxSeq == 4

\* The number of datagrams with an effect that an endpoint handles in one
\* behaviour: where no timeout expires, and where timeouts expire.
MaxDatagrams == 3
MaxTimedDatagrams == 2

\* The number of timeouts a retransmission scheduler sees expire in one
\* behaviour.
MaxTimeouts == 4

\* The number of texts the user enters where the client and the server run
\* together.
MaxLinkSends == 2

\* server_udp.py:49 and client_udp.py:100
MAX_RETRIES == 3

\* Python None where an int is expected (seq_num, ack_num).
NoneInt == -1

\* Python None where a string or an object is expected.
None == "None"

Addrs == {"a1", "a2", "a3"}
AddrOrder == <<"a1", "a2", "a3">>
Users == {"alice", "bob", "carol"}

MSG_TYPE_MESSAGE == "MESSAGE"
MSG_TYPE_COMMAND == "COMMAND"
MSG_TYPE_SYSTEM == "SYSTEM"
MSG_TYPE_ERROR == "ERROR"
MSG_TYPE_AUTH_REQUEST == "AUTH_REQUEST"
MSG_TYPE_AUTH_RESPONSE == "AUTH_RESPONSE"
MSG_TYPE_USER_JOINED == "USER_JOINED"
MSG_TYPE_USER_LEFT == "USER_LEFT"
MSG_TYPE_USER_LIST == "USER_LIST"
MSG_TYPE_UDP_DATA == "UDP_DATA"
MSG_TYPE_UDP_ACK == "UDP_ACK"
MSG_TYPE_CLIENT_LEAVING == "CLIENT_LEAVING"
MSG_TYPE_PRIVATE_MESSAGE == "PRIVATE_MESSAGE"
MSG_TYPE_PRIVATE_MESSAGE_FAILED == "PRIVATE_MESSAGE_FAILED"

(***************************************************************************)
(* The state.                                                              *)
(***************************************************************************)
\* server_udp.py: the registry, and the retransmission scheduler's place in
\* its cycle with the snapshots it iterates over.
VARIABLES clients, sched_pc, sched_clients, sched_cur, sched_entries

\* client_udp.py: the module's globals.
VARIABLES client_seq_num, next_expected_server_seq_num, ack_pending_on_server,
          current_users_set_udp, stop_event

\* client_udp.py: where the main thread is (start_udp_client), whether the
\* receive thread still loops, and where the client's retransmission
\* scheduler is, with its snapshot of the pending entries.
VARIABLES client_pc, receive_pc, csched_pc, csched_entries

\* server.py: the registry (`clients`: socket -> username), the sockets the
\* server has closed, the sockets whose peer is gone, and per connection
\* the place of its handler thread and that thread's local `username`.
VARIABLES tcp_clients, tcp_order, tcp_closed, tcp_broken, conn_pc, conn_username

\* Where one client and the server run together: the datagrams sent so far
\* in each direction, each of which the channel may deliver any number of
\* times (never, once, again) and in any order; and the sequence numbers of
\* the data datagrams each end has accepted so far.
VARIABLES to_server, to_client, accepted_by_server, accepted_by_client

\* Which program runs, whether its environment lets timeouts expire, and
\* how many datagrams were handled and timeouts expired so far.
VARIABLES program, timed, handled, timeouts

\* protocol.py on its own: the arguments of the create_message call made last,
\* the buffer that call returned or the network handed over, and what
\* parse_message returned for that buffer.  Each is empty until there is one.
VARIABLES codec_call, codec_data, codec_message

\* client.py: the stream client's set of the users it knows of and its
\* stop_event, and the calls its receive thread scheduled on the GUI thread
\* while it handled the last record.
VARIABLES current_users_set, client_stop_event, client_gui

serverVars == <<clients, sched_pc, sched_clients, sched_cur, sched_entries>>

clientGlobals == <<client_seq_num, next_expected_server_seq_num,
                   ack_pending_on_server, current_users_set_udp, stop_event>>

clientVars == <<clientGlobals, client_pc, receive_pc, csched_pc, csched_entries>>

tcpVars ==
    <<tcp_clients, tcp_order, tcp_closed, tcp_broken, conn_pc, conn_username>>

netVars == <<to_server, to_client, accepted_by_server, accepted_by_client>>

modeVars == <<program, timed, handled, timeouts>>

codecVars == <<codec_call, codec_data, codec_message>>

streamClientVars == <<current_users_set, client_stop_event, client_gui>>

vars == <<serverVars, clientVars, tcpVars, netVars, modeVars, codecVars,
          streamClientVars>>

(***************************************************************************)
(* Dicts.                                                                  *)
(***************************************************************************)
Get(d, k, default) == IF k \in DOMAIN d THEN d[k] ELSE default

Put(d, k, v) == [x \in DOMAIN d \cup {k} |-> IF x = k THEN v ELSE d[x]]

Del(d, k) == [x \in DOMAIN d \ {k} |-> d[x]]

\* A filter that also drops the identifier and the timestamp that are there.
DropIds(d) ==
    [x \in DOMAIN d \ {"message_id", "send_timestamp"} |-> d[x]]

\* {k: v for k, v in d.items() if v is not None}, for a dict in which only
\* message_id and send_timestamp can be None.
DropNone(d) ==
    [x \in {k \in DOMAIN d :
              ~(k \in {"message_id", "send_timestamp"} /\ d[k] = None)} |-> d[x]]

EmptyDict == [x \in {} |-> None]

(***************************************************************************)
(* protocol.py.  A byte buffer is either the UTF-8 JSON text of an object  *)
(* (kind "json", with the object it denotes) or bytes that are empty, not  *)
(* UTF-8 or not JSON.                                                      *)
(***************************************************************************)
JsonBytes(obj) == [kind |-> "json", obj |-> obj]

create_message(msg_type, payload, seq_num, ack_num, message_id, send_timestamp) ==
    LET keys == {"type", "payload"}
                  \cup (IF seq_num # NoneInt THEN {"seq_num"} ELSE {})
                  \cup (IF ack_num # NoneInt THEN {"ack_num"} ELSE {})
                  \cup (IF message_id # None THEN {"message_id"} ELSE {})
                  \cup (IF send_timestamp # None THEN {"send_timestamp"} ELSE {})
        message == [k \in keys |->
                      CASE k = "type" -> msg_type
                        [] k = "payload" -> payload
                        [] k = "seq_num" -> seq_num
                        [] k = "ack_num" -> ack_num
                        [] k = "message_id" -> message_id
                        [] k = "send_timestamp" -> send_timestamp]
    IN JsonBytes(message)

\* What parse_message returns for a buffer it cannot decode.  Every caller
\* tests the result with `if not message`, which holds of None and of no
\* object that has a type and a payload.
NoneObj == EmptyDict

ParsedAsRequest(data) ==
    IF data.kind = "json" /\ "type" \in DOMAIN data.obj /\ "payload" \in DOMAIN data.obj
    THEN data.obj
    ELSE [type |-> "AUTH_REQUEST", payload |-> [username |-> "alice"]]

parse_message(data) ==
    IF data.kind # "json" THEN NoneObj
    ELSE IF "type" \in DOMAIN data.obj /\ "payload" \in DOMAIN data.obj
         THEN data.obj
         ELSE NoneObj

\* A datagram with a sequence number and one with an ack number.
DataMsg(msg_type, payload, seq_num) ==
    create_message(msg_type, payload, seq_num, NoneInt, None, None)

\* An acknowledgment that names the sequence number after the one received.
AckMsgNext(payload, ack_num) ==
    create_message(MSG_TYPE_UDP_ACK, payload, NoneInt, ack_num + 1, None, None)

AckMsg(payload, ack_num) ==
    create_message(MSG_TYPE_UDP_ACK, payload, NoneInt, ack_num, None, None)

(***************************************************************************)
(* Chat text.  A text is the sequence of the pieces that single spaces     *)
(* separate: "/msg bob hi you" is <<"/msg", "bob", "hi", "you">>, and the  *)
(* empty text is <<>>.                                                     *)
(***************************************************************************)
\* text.startswith("/msg ") or text.startswith("/w ")
IsPrivateCommand(text) ==
    Len(text) >= 2 /\ text[1] \in {"/msg", "/w"}

\* text.split(" ", 2): at most three parts, the third the rest of the text.
Split2(text) ==
    IF Len(text) <= 2 THEN text
    ELSE <<text[1], text[2], SubSeq(text, 3, Len(text))>>

(***************************************************************************)
(* server_udp.py: the datagram server.                                     *)
(*                                                                         *)
(* clients maps a peer address to its state: username (None for a peer     *)
(* that was answered with a rejection and is not registered),              *)
(* next_expected_seq_num, server_to_client_seq_num and ack_pending, which  *)
(* maps a sequence number to the stored datagram and its retry count.      *)
(*                                                                         *)
(* A handler is an operator from the registry and its input to the         *)
(* registry afterwards (clients), the datagrams handed to sendto, in order *)
(* (out), and the addresses whose dict left the registry (dropped).        *)
(***************************************************************************)
ClientInfo(username, next_expected, pending, s2c) ==
    [username |-> username,
     next_expected_seq_num |-> next_expected,
     ack_pending |-> pending,
     server_to_client_seq_num |-> s2c]

Sent(address, data) == [to |-> address, data |-> data]

\* sock.sendto(message_bytes, address)
SendTo(st, address, data) == [st EXCEPT !.out = Append(@, Sent(address, data))]

PendingEntry(data, retries) == [data |-> data, retries |-> retries]

SendAndForget(st, address, msg_type, payload, seq_num) ==
    SendTo(st, address, DataMsg(msg_type, payload, seq_num))

send_reliable_message(st, address, msg_type, payload, seq_num) ==
    IF address \notin DOMAIN st.clients THEN st
    ELSE LET message_bytes == DataMsg(msg_type, payload, seq_num)
             stored == [st EXCEPT !.clients[address].ack_pending =
                                     Put(@, seq_num, PendingEntry(message_bytes, 0))]
         IN SendTo(stored, address, message_bytes)

\* A counter that stays where it is.
SameServerSeq(st, address) == st

\* clients[address]["server_to_client_seq_num"] += 1
IncServerSeq(st, address) ==
    [st EXCEPT !.clients[address].server_to_client_seq_num = @ + 1]

\* One reliable send on the link of `address`, with the link's own counter.
SendOnLink(st, address, msg_type, payload) ==
    IncServerSeq(
        send_reliable_message(st, address, msg_type, payload,
                              st.clients[address].server_to_client_seq_num),
        address)

UdpDataPayload(content, original_type) ==
    [message_content |-> content, original_type |-> original_type]

ReliableBroadcastTypes ==
    {MSG_TYPE_USER_JOINED, MSG_TYPE_USER_LEFT, MSG_TYPE_MESSAGE,
     MSG_TYPE_USER_LIST, MSG_TYPE_SYSTEM}

\* A test that does not look at the excluded address.
IsAnyRegistered(cs, client_addr, exclude_address) ==
    /\ client_addr \in DOMAIN cs
    /\ cs[client_addr].username # None

\* `if client_addr != exclude_address and client_info_data.get("username")`
IsBroadcastTarget(cs, client_addr, exclude_address) ==
    /\ client_addr \in DOMAIN cs
    /\ client_addr # exclude_address
    /\ cs[client_addr].username # None

RECURSIVE BroadcastFrom(_, _, _, _, _)
BroadcastFrom(st, i, content, original_type, exclude_address) ==
    IF i > Len(AddrOrder) THEN st
    ELSE LET client_addr == AddrOrder[i]
             next ==
               IF ~IsBroadcastTarget(st.clients, client_addr, exclude_address)
               THEN st
               ELSE IF original_type \in ReliableBroadcastTypes
                    THEN SendOnLink(st, client_addr, MSG_TYPE_UDP_DATA,
                                    UdpDataPayload(content, original_type))
                    ELSE SendTo(st, client_addr,
                                create_message(original_type, content,
                                               NoneInt, NoneInt, None, None))
         IN BroadcastFrom(next, i + 1, content, original_type, exclude_address)

broadcast_to_clients(st, content, original_type, exclude_address) ==
    BroadcastFrom(st, 1, content, original_type, exclude_address)

\* A payload that is not a JSON object: payload.get raises, and the receive
\* loop's `except Exception` abandons the handler where it stands.
NotADict == [not_a_dict |-> TRUE]

IsDict(payload) == "not_a_dict" \notin DOMAIN payload

\* A test that finds no username taken.
UsernameNeverTaken(cs, username_attempt) == FALSE

\* Line 218: `any(c.get("username") == username_attempt for c in clients.values())`
UsernameTaken(cs, username_attempt) ==
    \E a \in DOMAIN cs : cs[a].username = username_attempt

\* A counter that expects the sequence number of the request once more.
SameSeq(seq_num) == IF seq_num # NoneInt THEN seq_num ELSE 0

\* (seq_num + 1) if seq_num is not None else 0
NextAfter(seq_num) == IF seq_num # NoneInt THEN seq_num + 1 ELSE 0

AckIfSeq(st, addr, payload, seq_num) ==
    IF seq_num # NoneInt THEN SendTo(st, addr, AckMsg(payload, seq_num)) ELSE st

\* A user list that names nobody.
NoUsers(cs) == {}

\* A user list with the username field of every entry of the registry.
EveryEntry(cs) == {cs[a].username : a \in DOMAIN cs}

\* Line 266: the usernames of the entries that hold one.
UserList(cs) == {cs[a].username : a \in {b \in DOMAIN cs : cs[b].username # None}}

\* server_udp.py:209-277
HandleAuthRequest(st, addr, payload, seq_num) ==
    LET username_attempt == Get(payload, "username", None)
    IN IF username_attempt \in {None, ""} THEN st
       ELSE IF UsernameTaken(st.clients, username_attempt)
       THEN LET acked == AckIfSeq(st, addr, EmptyDict, seq_num)
                entered ==
                  IF addr \notin DOMAIN acked.clients
                  THEN [acked EXCEPT !.clients =
                          Put(@, addr, ClientInfo(None, NextAfter(seq_num), EmptyDict, 0))]
                  ELSE acked
            IN SendOnLink(entered, addr, MSG_TYPE_AUTH_RESPONSE,
                          [error |-> "Username is already taken."])
       ELSE LET registered ==
                  [st EXCEPT !.clients =
                     Put(@, addr, ClientInfo(username_attempt, NextAfter(seq_num),
                                             EmptyDict, 0)),
                             !.dropped = @ \cup ({addr} \cap DOMAIN st.clients)]
                acked == AckIfSeq(registered, addr,
                                  [message |-> "Username registered successfully."],
                                  seq_num)
                welcomed ==
                  SendOnLink(acked, addr, MSG_TYPE_UDP_DATA,
                             UdpDataPayload([text |-> <<"Welcome", username_attempt>>],
                                            MSG_TYPE_SYSTEM))
                listed ==
                  SendOnLink(welcomed, addr, MSG_TYPE_UDP_DATA,
                             UdpDataPayload([users |-> UserList(welcomed.clients)],
                                            MSG_TYPE_USER_LIST))
            IN broadcast_to_clients(
                   listed,
                   [username |-> username_attempt,
                    message |-> <<username_attempt, "has joined.">>],
                   MSG_TYPE_USER_JOINED, addr)

\* An acknowledgment that is answered with an acknowledgment.
HandleAckAcked(st, addr, ack_num) == SendTo(st, addr, AckMsg(EmptyDict, ack_num))

\* A handler that retires the oldest pending entry, whatever the ack names.
HandleAckOldest(st, addr, ack_num) ==
    LET pending == st.clients[addr].ack_pending
    IN IF ack_num # NoneInt /\ DOMAIN pending # {}
       THEN [st EXCEPT !.clients[addr].ack_pending =
                          Del(@, CHOOSE k \in DOMAIN pending :
                                     \A j \in DOMAIN pending : k <= j)]
       ELSE st

\* server_udp.py:288-295
HandleAck(st, addr, ack_num) ==
    IF ack_num # NoneInt /\ ack_num \in DOMAIN st.clients[addr].ack_pending
    THEN [st EXCEPT !.clients[addr].ack_pending = Del(@, ack_num)]
    ELSE st

\* A lookup that takes the first address that holds any username.
FindFirstRegistered(cs, recipient_username) ==
    LET hits == {a \in DOMAIN cs : cs[a].username # None}
    IN IF hits = {} THEN None
       ELSE AddrOrder[CHOOSE i \in 1..Len(AddrOrder) :
                        /\ AddrOrder[i] \in hits
                        /\ \A j \in 1..(i - 1) : AddrOrder[j] \notin hits]

\* Lines 340-346: the first address whose username is recipient_username, or
\* None.  (The registry is walked in the order of AddrOrder; the program
\* walks it in the order of insertion, which gives another address only
\* when two entries hold the same username.)
FindRecipient(cs, recipient_username) ==
    LET hits == {a \in DOMAIN cs : cs[a].username = recipient_username}
    IN IF hits = {} THEN None
       ELSE AddrOrder[CHOOSE i \in 1..Len(AddrOrder) :
                        /\ AddrOrder[i] \in hits
                        /\ \A j \in 1..(i - 1) : AddrOrder[j] \notin hits]

\* server_udp.py:326-383
HandlePrivateCommand(st, addr, content, text_from_client) ==
    LET parts == Split2(text_from_client)
    IN IF Len(parts) < 3
       THEN SendOnLink(st, addr, MSG_TYPE_UDP_DATA,
                UdpDataPayload([error |-> "Invalid private message format."],
                               MSG_TYPE_ERROR))
       ELSE LET recipient_username == parts[2]
                private_text == parts[3]
                recipient_addr == FindRecipient(st.clients, recipient_username)
            IN IF recipient_addr # None /\ recipient_addr # addr
               THEN SendOnLink(st, recipient_addr, MSG_TYPE_UDP_DATA,
                        UdpDataPayload(
                            DropNone([sender |-> st.clients[addr].username,
                                      recipient |-> recipient_username,
                                      text |-> private_text,
                                      message_id |-> Get(content, "message_id", None),
                                      send_timestamp |->
                                          Get(content, "send_timestamp", None)]),
                            MSG_TYPE_PRIVATE_MESSAGE))
               ELSE IF recipient_addr = addr
               THEN SendOnLink(st, addr, MSG_TYPE_UDP_DATA,
                        UdpDataPayload(
                            [recipient |-> recipient_username,
                             reason |-> <<"You cannot send a private message to yourself.">>],
                            MSG_TYPE_PRIVATE_MESSAGE_FAILED))
               ELSE SendOnLink(st, addr, MSG_TYPE_UDP_DATA,
                        UdpDataPayload(
                            [recipient |-> recipient_username,
                             reason |-> <<"User", recipient_username,
                                          "not found or is offline.">>],
                            MSG_TYPE_PRIVATE_MESSAGE_FAILED))

\* server_udp.py:317-399: the payload of an accepted datagram is dispatched.
DispatchData(st, addr, payload) ==
    IF ~IsDict(payload) THEN st
    ELSE
    LET actual_message_content == Get(payload, "message_content", EmptyDict)
        original_type == Get(payload, "original_type", MSG_TYPE_MESSAGE)
    IN IF original_type # MSG_TYPE_MESSAGE THEN st
       ELSE LET text_from_client == Get(actual_message_content, "text", <<>>)
            IN IF text_from_client = <<>> THEN st
               ELSE IF IsPrivateCommand(text_from_client)
               THEN HandlePrivateCommand(st, addr, actual_message_content,
                                         text_from_client)
               ELSE broadcast_to_clients(
                        st,
                        DropNone([sender |-> st.clients[addr].username,
                                  text |-> text_from_client,
                                  message_id |->
                                      Get(actual_message_content, "message_id", None),
                                  send_timestamp |->
                                      Get(actual_message_content, "send_timestamp",
                                          None)]),
                        MSG_TYPE_MESSAGE, addr)

\* A handler that also accepts a datagram from beyond the counter.
HandleDataAhead(st, addr, payload, seq_num) ==
    IF seq_num = NoneInt THEN st
    ELSE LET acked == SendTo(st, addr,
                             AckMsg([status |-> "Server received your data"], seq_num))
         IN IF seq_num >= acked.clients[addr].next_expected_seq_num
            THEN DispatchData(
                     [acked EXCEPT !.clients[addr].next_expected_seq_num = seq_num + 1],
                     addr, payload)
            ELSE acked

\* server_udp.py:299-409
HandleData(st, addr, payload, seq_num) ==
    IF seq_num = NoneInt THEN st
    ELSE LET acked == SendTo(st, addr,
                             AckMsg([status |-> "Server received your data"], seq_num))
         IN IF seq_num = acked.clients[addr].next_expected_seq_num
            THEN DispatchData(
                     [acked EXCEPT !.clients[addr].next_expected_seq_num = @ + 1],
                     addr, payload)
            ELSE acked

\* A leave notice that is acknowledged and changes nothing.
LeavingIgnored(st, addr, payload, seq_num) ==
    AckIfSeq(st, addr, [status |-> "Leaving message acknowledged"], seq_num)

\* server_udp.py:413-435
HandleLeaving(st, addr, payload, seq_num) ==
    LET leaving_username == Get(payload, "username", st.clients[addr].username)
        acked == AckIfSeq(st, addr, [status |-> "Leaving message acknowledged"],
                          seq_num)
        removed == [acked EXCEPT !.clients = Del(@, addr), !.dropped = @ \cup {addr}]
    IN broadcast_to_clients(
           removed,
           [username |-> leaving_username,
            message |-> <<leaving_username, "has left the chat.">>],
           MSG_TYPE_USER_LEFT, addr)

\* A test that stops the datagrams of unknown addresses only.
IsUnknown(cs, addr) == addr \notin DOMAIN cs

\* Line 280: `if not client_info or not client_info.get("username")`.
IsUnauthenticated(cs, addr) == addr \notin DOMAIN cs \/ cs[addr].username = None

\* server_udp.py:185-438: one datagram `data` from `addr`, on the registry cs.
\* The result is the registry afterwards, the datagrams sent, and the
\* addresses whose dict was taken out of the registry (deleted, or replaced
\* by a new dict): a thread that still holds such a dict holds an orphan.
handle_udp_message(cs, data, addr) ==
    LET st == [clients |-> cs, out |-> <<>>, dropped |-> {}]
        message == parse_message(data)
    IN IF message = NoneObj THEN st
       ELSE
       LET msg_type == message.type
           payload == message.payload
           seq_num == Get(message, "seq_num", NoneInt)
           ack_num == Get(message, "ack_num", NoneInt)
       IN IF msg_type = MSG_TYPE_AUTH_REQUEST
          THEN IF IsDict(payload) THEN HandleAuthRequest(st, addr, payload, seq_num)
                                  ELSE st
          ELSE IF IsUnauthenticated(cs, addr) THEN st
          ELSE IF msg_type = MSG_TYPE_UDP_ACK THEN HandleAck(st, addr, ack_num)
          ELSE IF msg_type = MSG_TYPE_UDP_DATA
          THEN HandleData(st, addr, payload, seq_num)
          ELSE IF msg_type = MSG_TYPE_CLIENT_LEAVING
          THEN IF IsDict(payload) THEN HandleLeaving(st, addr, payload, seq_num)
                                  ELSE st
          ELSE st

(***************************************************************************)
(* server_udp.py:81-121, check_retransmissions, which runs in a thread of  *)
(* its own beside the receive loop.  The receive loop handles one datagram *)
(* in one step; the scheduler takes one step per snapshot it takes and per *)
(* pending entry it acts on, so that datagrams are handled between the     *)
(* moment an entry is read and the moment it is written or deleted.        *)
(*                                                                         *)
(* A reference to a client dict is the address and, once the registry no   *)
(* longer holds that dict, the dict itself (an orphan, which only the      *)
(* scheduler can still reach).                                             *)
(***************************************************************************)
Ref(addr, orphan) == [addr |-> addr, orphan |-> orphan]

LiveRef(addr) == Ref(addr, NoneObj)

IsLive(ref) == ref.orphan = NoneObj

NoRef == Ref(None, NoneObj)

\* The dict a reference denotes.
Deref(cs, ref) == IF IsLive(ref) THEN cs[ref.addr] ELSE ref.orphan

\* The registry cs is about to lose the dicts of `dropped`.
Orphaned(cs, dropped, ref) ==
    IF IsLive(ref) /\ ref.addr \in dropped THEN Ref(ref.addr, cs[ref.addr]) ELSE ref

\* list(d.items()) of a pending table, in ascending order of sequence number.
RECURSIVE Items(_)
Items(d) ==
    IF DOMAIN d = {} THEN <<>>
    ELSE LET k == CHOOSE x \in DOMAIN d : \A y \in DOMAIN d : x <= y
         IN <<[seq_num |-> k, data |-> d[k].data, retries |-> d[k].retries]>>
              \o Items(Del(d, k))

\* list(clients.items())
RECURSIVE ClientRefs(_, _)
ClientRefs(cs, i) ==
    IF i > Len(AddrOrder) THEN <<>>
    ELSE (IF AddrOrder[i] \in DOMAIN cs THEN <<LiveRef(AddrOrder[i])>> ELSE <<>>)
           \o ClientRefs(cs, i + 1)

Suffix(s, i) == SubSeq(s, i + 1, Len(s))

\* A test that lets one more retransmission through.
MayRetransmitOnceMore(retries) == retries <= MAX_RETRIES

\* `if retries < MAX_RETRIES`
MayRetransmit(retries) == retries < MAX_RETRIES

\* Line 104: what the scheduler hands to sendto for the snapshot entry e.
Retransmission(addr, e) == Sent(addr, e.data)

CountedTwice(pending, e) ==
    Put(pending, e.seq_num, PendingEntry(e.data, e.retries + 2))

\* Line 106: the entry is written back with one more retry.
Retransmitted(pending, e) ==
    Put(pending, e.seq_num, PendingEntry(e.data, e.retries + 1))

\* A test that takes the last datagram sent on any link for critical.
IsLastSent(obj, seq_num) == seq_num = obj.server_to_client_seq_num - 1

\* Line 116: the abandoned entry belonged to a peer without a username and
\* was the last datagram sent on its link.
IsCriticalAuthFailure(obj, seq_num) ==
    /\ obj.username = None
    /\ seq_num = obj.server_to_client_seq_num - 1

\* The scheduler's current dict becomes obj.
SetCur(obj) ==
    IF IsLive(sched_cur)
    THEN /\ clients' = [clients EXCEPT ![sched_cur.addr] = obj]
         /\ sched_cur' = sched_cur
    ELSE /\ clients' = clients
         /\ sched_cur' = Ref(sched_cur.addr, obj)

\* A step of the scheduler that sees no timeout expire, and one that does.
NoTimeout == UNCHANGED <<handled, timeouts>>

Timeout ==
    /\ timeouts < MaxTimeouts
    /\ timeouts' = timeouts + 1
    /\ UNCHANGED handled

ServerRuns == program = "udp_server"

\* Line 97: `for addr, client_info in list(clients.items())`.
SchedStartCycle ==
    /\ ServerRuns /\ timed
    /\ sched_pc = "sleep"
    /\ timeouts < MaxTimeouts
    /\ sched_pc' = "clients"
    /\ sched_clients' = ClientRefs(clients, 1)
    /\ NoTimeout
    /\ UNCHANGED <<clients, sched_cur, sched_entries, program, timed>>
    /\ UNCHANGED <<clientVars, tcpVars, netVars, codecVars, streamClientVars>>

\* Line 99: the snapshot of the pending entries of the i-th remaining client
\* (on the clients before it, no entry had timed out).
SchedVisit(i) ==
    /\ ServerRuns
    /\ sched_pc = "clients"
    /\ i \in 1..Len(sched_clients)
    /\ sched_cur' = sched_clients[i]
    /\ sched_clients' = Suffix(sched_clients, i)
    /\ sched_entries' = Items(Deref(clients, sched_clients[i]).ack_pending)
    /\ sched_pc' = "entries"
    /\ NoTimeout
    /\ UNCHANGED <<clients, program, timed>>
    /\ UNCHANGED <<clientVars, tcpVars, netVars, codecVars, streamClientVars>>

\* No entry of the clients that remain has timed out: line 121, the sleep.
SchedEndCycle ==
    /\ ServerRuns
    /\ sched_pc = "clients"
    /\ sched_pc' = "sleep"
    /\ sched_clients' = <<>>
    /\ NoTimeout
    /\ UNCHANGED <<clients, sched_cur, sched_entries, program, timed>>
    /\ UNCHANGED <<clientVars, tcpVars, netVars, codecVars, streamClientVars>>

\* No entry that remains in the snapshot has timed out: on to the next client.
SchedLeaveClient ==
    /\ ServerRuns
    /\ sched_pc = "entries"
    /\ sched_pc' = "clients"
    /\ sched_cur' = NoRef
    /\ sched_entries' = <<>>
    /\ NoTimeout
    /\ UNCHANGED <<clients, sched_clients, program, timed>>
    /\ UNCHANGED <<clientVars, tcpVars, netVars, codecVars, streamClientVars>>

\* Lines 100-106: the i-th entry of the snapshot has timed out (the entries
\* before it have not) and is sent again.
SchedRetransmit(i) ==
    /\ ServerRuns
    /\ sched_pc = "entries"
    /\ i \in 1..Len(sched_entries)
    /\ MayRetransmit(sched_entries[i].retries)
    /\ Timeout
    /\ LET obj == Deref(clients, sched_cur)
       IN SetCur([obj EXCEPT !.ack_pending = Retransmitted(@, sched_entries[i])])
    /\ sched_entries' = Suffix(sched_entries, i)
    /\ UNCHANGED <<sched_pc, sched_clients, program, timed>>
    /\ UNCHANGED <<clientVars, tcpVars, netVars, codecVars, streamClientVars>>

\* Lines 110-116: the i-th entry has timed out with its retries used up; it
\* is deleted, and the client entry is marked for removal when it holds no
\* username and the entry was the last datagram sent on the link.
SchedAbandon(i) ==
    /\ ServerRuns
    /\ sched_pc = "entries"
    /\ i \in 1..Len(sched_entries)
    /\ ~MayRetransmit(sched_entries[i].retries)
    /\ Timeout
    /\ LET e == sched_entries[i]
           obj == Deref(clients, sched_cur)
       IN /\ e.seq_num \in DOMAIN obj.ack_pending
          /\ SetCur([obj EXCEPT !.ack_pending = Del(@, e.seq_num)])
          /\ sched_pc' = IF IsCriticalAuthFailure(obj, e.seq_num)
                         THEN "del_client"
                         ELSE "entries"
    /\ sched_entries' = Suffix(sched_entries, i)
    /\ UNCHANGED <<sched_clients, program, timed>>
    /\ UNCHANGED <<clientVars, tcpVars, netVars, codecVars, streamClientVars>>

\* Line 112 when the entry is no longer in the dict: `del` raises KeyError,
\* nothing catches it, and the scheduler thread ends.
SchedKeyError(i) ==
    /\ ServerRuns
    /\ sched_pc = "entries"
    /\ i \in 1..Len(sched_entries)
    /\ ~MayRetransmit(sched_entries[i].retries)
    /\ sched_entries[i].seq_num \notin DOMAIN Deref(clients, sched_cur).ack_pending
    /\ Timeout
    /\ sched_pc' = "crashed"
    /\ sched_cur' = NoRef
    /\ sched_entries' = <<>>
    /\ sched_clients' = <<>>
    /\ UNCHANGED <<clients, program, timed>>
    /\ UNCHANGED <<clientVars, tcpVars, netVars, codecVars, streamClientVars>>

\* Line 118: `if addr in clients: del clients[addr]`.
SchedDelClient ==
    /\ ServerRuns
    /\ sched_pc = "del_client"
    /\ IF sched_cur.addr \in DOMAIN clients
       THEN /\ clients' = Del(clients, sched_cur.addr)
            /\ sched_cur' = Orphaned(clients, {sched_cur.addr}, sched_cur)
       ELSE UNCHANGED <<clients, sched_cur>>
    /\ sched_pc' = "entries"
    /\ NoTimeout
    /\ UNCHANGED <<sched_clients, sched_entries, program, timed>>
    /\ UNCHANGED <<clientVars, tcpVars, netVars, codecVars, streamClientVars>>

(***************************************************************************)
(* The datagrams that reach the server.                                    *)
(***************************************************************************)
SeqNums == 0..MaxSeq

OptSeqNums == {NoneInt} \cup SeqNums

WithIds(text) == [text |-> text, message_id |-> "m1", send_timestamp |-> "t1"]

Chat(content) == UdpDataPayload(content, MSG_TYPE_MESSAGE)

Undecodable ==
    {[kind |-> "empty"], [kind |-> "not_utf8"], [kind |-> "not_json"],
     JsonBytes([type |-> MSG_TYPE_MESSAGE])}

AuthRequest(username, seq_num) ==
    DataMsg(MSG_TYPE_AUTH_REQUEST, [username |-> username], seq_num)

Leaving(payload, seq_num) == DataMsg(MSG_TYPE_CLIENT_LEAVING, payload, seq_num)

ChatPayloads ==
    {Chat(WithIds(<<"hi">>)), Chat([text |-> <<"hi">>]),
     Chat(WithIds(<<"/msg", "alice", "yo">>)),
     Chat([text |-> <<"/w", "bob", "yo", "there">>]),
     Chat([text |-> <<"/w", "carol", "yo">>]),
     Chat([text |-> <<"/msg", "dave", "yo">>]),
     Chat([text |-> <<"/msg", "carol">>]),
     Chat([text |-> <<"/msg">>]),
     Chat([text |-> <<>>]), Chat(EmptyDict),
     [message_content |-> [text |-> <<"hi">>]],
     UdpDataPayload([text |-> <<"hi">>], MSG_TYPE_PRIVATE_MESSAGE),
     EmptyDict, NotADict}

\* Every datagram of the model: what a property of the handling of one
\* datagram ranges over.
AnyToServer ==
    Undecodable
      \cup {AuthRequest(u, s) : u \in Users \cup {""}, s \in OptSeqNums}
      \cup {DataMsg(MSG_TYPE_AUTH_REQUEST, p, s) :
              p \in {EmptyDict, NotADict}, s \in OptSeqNums}
      \cup {AckMsg(EmptyDict, a) : a \in SeqNums}
      \cup {create_message(MSG_TYPE_UDP_ACK, EmptyDict, NoneInt, NoneInt, None, None)}
      \cup {DataMsg(MSG_TYPE_UDP_DATA, p, s) : p \in ChatPayloads, s \in OptSeqNums}
      \cup {Leaving(p, s) :
              p \in {[username |-> u, reason |-> "User initiated disconnect"] :
                       u \in Users} \cup {EmptyDict, NotADict},
              s \in OptSeqNums}
      \cup {DataMsg(MSG_TYPE_COMMAND, EmptyDict, NoneInt)}

\* The datagrams that arrive in the behaviours explored where no timeout
\* expires.  The peer at a1 sends every kind of datagram; the peers at a2 and
\* a3 register, chat in order, acknowledge and leave.
ToServer(addr) ==
    CASE addr = "a1" ->
           {[kind |-> "not_json"],
            AuthRequest("alice", 0), AuthRequest("alice", NoneInt),
            Leaving(EmptyDict, NoneInt),
            Leaving([username |-> "bob", reason |-> "User initiated disconnect"],
                    MaxSeq)}
             \cup {AckMsg(EmptyDict, a) : a \in SeqNums}
             \cup {DataMsg(MSG_TYPE_UDP_DATA, p, s) :
                     p \in {Chat(WithIds(<<"hi">>)),
                            Chat(WithIds(<<"/msg", "alice", "yo">>)),
                            Chat([text |-> <<"/w", "bob", "yo", "there">>]),
                            Chat([text |-> <<"/msg", "carol">>])},
                     s \in SeqNums}
      [] addr = "a2" ->
           {AuthRequest("alice", 0), AuthRequest("bob", 0),
            Leaving(EmptyDict, NoneInt)}
             \cup {AckMsg(EmptyDict, a) : a \in SeqNums}
             \cup {DataMsg(MSG_TYPE_UDP_DATA, p, s) :
                     p \in {Chat([text |-> <<"hi">>]),
                            Chat([text |-> <<"/msg", "alice", "yo">>])},
                     s \in SeqNums}
      [] OTHER ->
           {AuthRequest("carol", 0), Leaving(EmptyDict, NoneInt)}
             \cup {AckMsg(EmptyDict, a) : a \in SeqNums}

\* The datagrams that arrive in the behaviours explored where timeouts
\* expire: two peers that register (under one name or two), acknowledge and
\* leave.
TimedToServer(addr) ==
    CASE addr = "a1" ->
           {AuthRequest("alice", 0), Leaving(EmptyDict, NoneInt),
            AckMsg(EmptyDict, 0), AckMsg(EmptyDict, 1)}
      [] addr = "a2" ->
           {AuthRequest("alice", 0), AuthRequest("bob", 0), AckMsg(EmptyDict, 0)}
      [] OTHER -> {}

\* The bound on the outbound counters.
WithinBound(cs) ==
    \A a \in DOMAIN cs : cs[a].server_to_client_seq_num <= MaxSeq

\* The datagrams one behaviour may still handle.
Budget == IF timed THEN MaxTimedDatagrams ELSE MaxDatagrams

\* A datagram that changes the state is counted.
Handled(changed) ==
    /\ IF changed THEN handled < Budget /\ handled' = handled + 1
                  ELSE handled' = handled
    /\ UNCHANGED timeouts

\* server_udp.py:460-466: the receive loop hands one datagram to
\* handle_udp_message.
ServerReceive(data, addr) ==
    /\ ServerRuns
    /\ LET r == handle_udp_message(clients, data, addr)
       IN /\ WithinBound(r.clients)
          /\ Handled(r.clients # clients)
          /\ clients' = r.clients
          /\ sched_cur' = Orphaned(clients, r.dropped, sched_cur)
          /\ sched_clients' = [i \in DOMAIN sched_clients |->
                                 Orphaned(clients, r.dropped, sched_clients[i])]
    /\ UNCHANGED <<sched_pc, sched_entries, program, timed>>
    /\ UNCHANGED <<clientVars, tcpVars, netVars, codecVars, streamClientVars>>

(***************************************************************************)
(* client_udp.py: the datagram client.  Its state is the module's globals; *)
(* a handler is an operator on the record of these globals, extended with  *)
(* the datagrams handed to sendto (out) and the calls scheduled on the GUI *)
(* thread (gui), in order.                                                 *)
(***************************************************************************)
\* The name the user chose in the connection dialog.
username_global == "alice"

ClientGlobals ==
    [client_seq_num |-> client_seq_num,
     next_expected_server_seq_num |-> next_expected_server_seq_num,
     ack_pending_on_server |-> ack_pending_on_server,
     current_users_set_udp |-> current_users_set_udp,
     stop_event |-> stop_event,
     out |-> <<>>,
     gui |-> <<>>]

\* client_socket.sendto(message_bytes, server_addr)
ClientSendTo(c, data) == [c EXCEPT !.out = Append(@, data)]

\* gui.root.after(0, lambda: gui.<call>(<args>))
GuiAfter(c, call, args) == [c EXCEPT !.gui = Append(@, [call |-> call, args |-> args])]

\* client_udp.py:102-129
send_reliable_udp_message(c, msg_type, payload, seq_num_to_use) ==
    IF c.stop_event
    THEN GuiAfter(c, "display_error_message", <<"Not connected or sending disabled.">>)
    ELSE LET message_bytes == DataMsg(msg_type, payload, seq_num_to_use)
             stored == [c EXCEPT !.ack_pending_on_server =
                                    Put(@, seq_num_to_use, PendingEntry(message_bytes, 0))]
         IN ClientSendTo(stored, message_bytes)

\* client_udp.py:200-206
ClientHandleAck(c, server_ack) ==
    IF server_ack # NoneInt /\ server_ack \in DOMAIN c.ack_pending_on_server
    THEN [c EXCEPT !.ack_pending_on_server = Del(@, server_ack)]
    ELSE c

\* The receive loop's `except Exception`: stop_event is set and the loop ends.
ClientRaise(c) ==
    [GuiAfter(c, "display_error_message", <<"Unexpected UDP Receiving error">>)
       EXCEPT !.stop_event = TRUE]

\* client_udp.py:229-288: the payload of an accepted datagram is dispatched.
ClientDispatch(c, payload) ==
    IF ~IsDict(payload) THEN ClientRaise(c)
    ELSE
    LET actual_content == Get(payload, "message_content", EmptyDict)
        original_type == Get(payload, "original_type", None)
    IN CASE original_type = MSG_TYPE_MESSAGE ->
              LET sender == Get(actual_content, "sender", "Unknown")
              IN GuiAfter(c, "display_message",
                          <<sender, Get(actual_content, "text", <<>>),
                            sender = username_global>>)
         [] original_type = MSG_TYPE_SYSTEM ->
              GuiAfter(c, "display_system_message",
                       <<Get(actual_content, "text", <<>>)>>)
         [] original_type = MSG_TYPE_USER_JOINED ->
              LET ju == Get(actual_content, "username", None)
              IN IF ju \in {None, ""} THEN c
                 ELSE LET added == [c EXCEPT !.current_users_set_udp = @ \cup {ju}]
                      IN GuiAfter(added, "update_user_list",
                                  <<ju, "joined.", added.current_users_set_udp>>)
         [] original_type = MSG_TYPE_USER_LEFT ->
              LET lu == Get(actual_content, "username", None)
              IN IF lu \in {None, ""} \/ lu \notin c.current_users_set_udp THEN c
                 ELSE LET removed == [c EXCEPT !.current_users_set_udp = @ \ {lu}]
                      IN GuiAfter(removed, "update_user_list",
                                  <<lu, "left.", removed.current_users_set_udp>>)
         [] original_type = MSG_TYPE_USER_LIST ->
              LET listed == [c EXCEPT !.current_users_set_udp =
                                         Get(actual_content, "users", {})]
              IN GuiAfter(listed, "update_user_list", <<listed.current_users_set_udp>>)
         [] original_type = MSG_TYPE_PRIVATE_MESSAGE ->
              GuiAfter(c, "display_private_message",
                       <<Get(actual_content, "sender", "Unknown"),
                         Get(actual_content, "text", <<>>), FALSE>>)
         [] original_type = MSG_TYPE_PRIVATE_MESSAGE_FAILED ->
              GuiAfter(c, "display_error_message",
                       <<"PM to", Get(actual_content, "recipient", "Unknown"),
                         "failed:",
                         Get(actual_content, "reason",
                             "Failed to send private message.")>>)
         [] original_type = MSG_TYPE_ERROR ->
              GuiAfter(c, "display_error_message",
                       <<Get(actual_content, "error",
                             "Unknown server error via UDP_DATA.")>>)
         [] OTHER ->
              GuiAfter(c, "display_system_message",
                       <<"unhandled original_type", original_type, actual_content>>)

\* client_udp.py:210-296
ClientHandleData(c, payload, server_seq) ==
    IF server_seq = NoneInt
    THEN GuiAfter(c, "display_error_message",
                  <<"Server UDP_DATA missing sequence number.">>)
    ELSE LET acked == ClientSendTo(c, AckMsg([status |-> "Client received server_seq"],
                                             server_seq))
         IN IF server_seq = acked.next_expected_server_seq_num
            THEN ClientDispatch(
                     [acked EXCEPT !.next_expected_server_seq_num = @ + 1], payload)
            ELSE IF server_seq < acked.next_expected_server_seq_num
            THEN acked
            ELSE GuiAfter(acked, "display_error_message",
                          <<"Out-of-order server seq", server_seq>>)

\* client_udp.py:300-321
ClientHandleAuthResponse(c, payload, server_seq) ==
    IF ~IsDict(payload) THEN ClientRaise(c)
    ELSE
    LET error_from_server == Get(payload, "error", None)
    IN IF error_from_server \notin {None, ""}
       THEN [GuiAfter(c, "display_error_message",
                      <<"Server Auth Error:", error_from_server>>)
               EXCEPT !.stop_event = TRUE]
       ELSE LET shown == GuiAfter(c, "display_system_message",
                             <<"Server Auth OK:",
                               Get(payload, "message", "Authenticated successfully.")>>)
                acked ==
                  IF server_seq = NoneInt THEN shown
                  ELSE LET sent == ClientSendTo(shown, AckMsg(EmptyDict, server_seq))
                       IN IF server_seq = sent.next_expected_server_seq_num
                          THEN [sent EXCEPT !.next_expected_server_seq_num = @ + 1]
                          ELSE sent
            IN IF 0 \in DOMAIN acked.ack_pending_on_server
               THEN [acked EXCEPT !.ack_pending_on_server = Del(@, 0)]
               ELSE acked

\* client_udp.py:179-328: one round of the receive loop, on the datagram
\* `data` that recvfrom returned from the server's address.
receive_udp_messages(c, data) ==
    LET message == parse_message(data)
    IN IF message = NoneObj
       THEN GuiAfter(c, "display_error_message", <<"Malformed UDP from server.">>)
       ELSE
       LET msg_type == message.type
           payload == message.payload
           server_seq == Get(message, "seq_num", NoneInt)
           server_ack == Get(message, "ack_num", NoneInt)
       IN IF msg_type = MSG_TYPE_UDP_ACK THEN ClientHandleAck(c, server_ack)
          ELSE IF msg_type = MSG_TYPE_UDP_DATA
          THEN ClientHandleData(c, payload, server_seq)
          ELSE IF msg_type = MSG_TYPE_AUTH_RESPONSE
          THEN ClientHandleAuthResponse(c, payload, server_seq)
          ELSE GuiAfter(c, "display_system_message",
                        <<"unhandled direct message type", msg_type>>)

\* client_udp.py:357-414: the GUI hands the text the user entered.
IsQuit(text) == text \in {<<"/quit">>, <<"/disconnect">>}

gui_send_udp_message(c, message_text) ==
    IF c.stop_event
    THEN GuiAfter(c, "display_error_message", <<"Not connected.">>)
    ELSE IF IsQuit(message_text)
    THEN LET sent == send_reliable_udp_message(
                         GuiAfter(c, "display_system_message",
                                  <<"Sending leaving notification...">>),
                         MSG_TYPE_CLIENT_LEAVING,
                         [username |-> username_global,
                          reason |-> "User initiated disconnect"],
                         c.client_seq_num)
         IN [sent EXCEPT !.client_seq_num = @ + 1, !.stop_event = TRUE]
    ELSE IF message_text # <<>>
    THEN LET sent == send_reliable_udp_message(
                         c, MSG_TYPE_UDP_DATA, Chat(WithIds(message_text)),
                         c.client_seq_num)
             shown == GuiAfter(sent, "display_message",
                               <<username_global, message_text, TRUE>>)
         IN [shown EXCEPT !.client_seq_num = @ + 1]
    ELSE c

\* The globals become those of c.
SetClientGlobals(c) ==
    /\ client_seq_num' = c.client_seq_num
    /\ next_expected_server_seq_num' = c.next_expected_server_seq_num
    /\ ack_pending_on_server' = c.ack_pending_on_server
    /\ current_users_set_udp' = c.current_users_set_udp
    /\ stop_event' = c.stop_event

SameGlobals(c) ==
    /\ client_seq_num = c.client_seq_num
    /\ next_expected_server_seq_num = c.next_expected_server_seq_num
    /\ ack_pending_on_server = c.ack_pending_on_server
    /\ current_users_set_udp = c.current_users_set_udp
    /\ stop_event = c.stop_event

ClientRuns == program = "udp_client"

\* The datagrams that reach the client.
FromServer(content, original_type, seq_num) ==
    DataMsg(MSG_TYPE_UDP_DATA, UdpDataPayload(content, original_type), seq_num)

AuthError(seq_num) ==
    DataMsg(MSG_TYPE_AUTH_RESPONSE, [error |-> "Username is already taken."], seq_num)

ServerEvents ==
    {UdpDataPayload([text |-> <<"Welcome", "alice">>], MSG_TYPE_SYSTEM),
     UdpDataPayload([users |-> {"alice", "bob"}], MSG_TYPE_USER_LIST),
     UdpDataPayload([username |-> "bob", message |-> <<"bob", "has joined.">>],
                    MSG_TYPE_USER_JOINED),
     UdpDataPayload([username |-> "bob", message |-> <<"bob", "has left the chat.">>],
                    MSG_TYPE_USER_LEFT),
     UdpDataPayload([sender |-> "bob", text |-> <<"hi">>], MSG_TYPE_MESSAGE),
     UdpDataPayload([sender |-> "bob", recipient |-> "alice", text |-> <<"yo">>],
                    MSG_TYPE_PRIVATE_MESSAGE),
     UdpDataPayload([recipient |-> "dave",
                     reason |-> <<"User", "dave", "not found or is offline.">>],
                    MSG_TYPE_PRIVATE_MESSAGE_FAILED),
     UdpDataPayload([error |-> "Invalid private message format."], MSG_TYPE_ERROR),
     UdpDataPayload(EmptyDict, MSG_TYPE_COMMAND),
     EmptyDict, NotADict}

\* Every datagram of the model: what a property of the handling of one
\* datagram ranges over.
AnyToClient ==
    Undecodable
      \cup {AckMsg([status |-> "Server received your data"], a) : a \in SeqNums}
      \cup {create_message(MSG_TYPE_UDP_ACK, EmptyDict, NoneInt, NoneInt, None, None)}
      \cup {DataMsg(MSG_TYPE_UDP_DATA, p, s) : p \in ServerEvents, s \in OptSeqNums}
      \cup {AuthError(s) : s \in OptSeqNums}
      \cup {DataMsg(MSG_TYPE_AUTH_RESPONSE, p, s) :
              p \in {[message |-> "ok"], EmptyDict, NotADict}, s \in OptSeqNums}
      \cup {DataMsg(MSG_TYPE_COMMAND, EmptyDict, NoneInt)}

\* The datagrams that arrive in the behaviours explored, where no timeout
\* expires and where timeouts expire.
ToClient ==
    IF timed
    THEN {AckMsg(EmptyDict, 0), AckMsg(EmptyDict, 1), AuthError(0),
          FromServer([text |-> <<"Welcome", "alice">>], MSG_TYPE_SYSTEM, 0)}
    ELSE {AckMsg(EmptyDict, a) : a \in SeqNums}
           \cup {DataMsg(MSG_TYPE_UDP_DATA, p, s) :
                   p \in {UdpDataPayload([users |-> {"alice", "bob"}],
                                         MSG_TYPE_USER_LIST),
                          UdpDataPayload([username |-> "bob",
                                          message |-> <<"bob", "has left the chat.">>],
                                         MSG_TYPE_USER_LEFT),
                          UdpDataPayload([sender |-> "bob", text |-> <<"hi">>],
                                         MSG_TYPE_MESSAGE),
                          NotADict},
                   s \in SeqNums}
           \cup {AuthError(0), DataMsg(MSG_TYPE_AUTH_RESPONSE, [message |-> "ok"], 0),
                 [kind |-> "not_json"]}

\* The texts the user enters.
GuiTexts == {<<"hi">>, <<"/quit">>, <<>>}

\* client_udp.py:487-504: the registration request goes out with sequence
\* number 0, and the two threads are started.
StartUdpClient ==
    /\ ClientRuns
    /\ client_pc = "init"
    /\ LET sent == send_reliable_udp_message(
                       ClientGlobals, MSG_TYPE_AUTH_REQUEST,
                       [username |-> username_global], client_seq_num)
       IN SetClientGlobals([sent EXCEPT !.client_seq_num = @ + 1])
    /\ client_pc' = "running"
    /\ receive_pc' = "recv"
    /\ csched_pc' = "sleep"
    /\ UNCHANGED <<csched_entries, program, timed, handled, timeouts>>
    /\ UNCHANGED <<serverVars, tcpVars, netVars, codecVars, streamClientVars>>

\* client_udp.py:177-349: recvfrom returns `data`.  The loop ends when the
\* round leaves stop_event set.
ClientReceive(data) ==
    /\ ClientRuns
    /\ client_pc = "running"
    /\ receive_pc = "recv"
    /\ LET r == receive_udp_messages(ClientGlobals, data)
       IN /\ Handled(~SameGlobals(r))
          /\ SetClientGlobals(r)
          /\ receive_pc' = IF r.stop_event THEN "done" ELSE "recv"
    /\ UNCHANGED <<client_pc, csched_pc, csched_entries, program, timed>>
    /\ UNCHANGED <<serverVars, tcpVars, netVars, codecVars, streamClientVars>>

\* The bound on the client's outbound counter.
SendBound == IF timed THEN MaxTimedDatagrams ELSE MaxSeq

\* The user enters a text.
GuiSend(message_text) ==
    /\ ClientRuns
    /\ client_pc = "running"
    /\ client_seq_num < SendBound
    /\ SetClientGlobals(gui_send_udp_message(ClientGlobals, message_text))
    /\ UNCHANGED <<client_pc, receive_pc, csched_pc, csched_entries,
                   program, timed, handled, timeouts>>
    /\ UNCHANGED <<serverVars, tcpVars, netVars, codecVars, streamClientVars>>

\* client_udp.py:417-425 and 506-511: the window is closed, gui.start()
\* returns, stop_event is set and the socket is closed, which ends the
\* receive thread.
OnGuiClose ==
    /\ ClientRuns
    /\ client_pc = "running"
    /\ client_pc' = "exited"
    /\ stop_event' = TRUE
    /\ receive_pc' = "done"
    /\ UNCHANGED <<client_seq_num, next_expected_server_seq_num,
                   ack_pending_on_server, current_users_set_udp,
                   csched_pc, csched_entries, program, timed, handled, timeouts>>
    /\ UNCHANGED <<serverVars, tcpVars, netVars, codecVars, streamClientVars>>

(***************************************************************************)
(* client_udp.py:132-165, check_client_retransmissions, step by step as    *)
(* the server's scheduler.                                                 *)
(***************************************************************************)
\* Line 147: `if client_socket: client_socket.sendto(data, server_addr)`.
ClientRetransmission(e) == IF client_pc = "running" THEN <<e.data>> ELSE <<>>

\* Lines 139-142: the loop goes on while stop_event is not set, and takes
\* the snapshot of the pending entries.
CSchedStartCycle ==
    /\ ClientRuns /\ timed
    /\ csched_pc = "sleep"
    /\ ~stop_event
    /\ timeouts < MaxTimeouts
    /\ csched_pc' = "entries"
    /\ csched_entries' = Items(ack_pending_on_server)
    /\ NoTimeout
    /\ UNCHANGED <<clientGlobals, client_pc, receive_pc, program, timed>>
    /\ UNCHANGED <<serverVars, tcpVars, netVars, codecVars, streamClientVars>>

\* Line 165: no entry that remains in the snapshot has timed out.
CSchedEndCycle ==
    /\ ClientRuns
    /\ csched_pc = "entries"
    /\ csched_pc' = "sleep"
    /\ csched_entries' = <<>>
    /\ NoTimeout
    /\ UNCHANGED <<clientGlobals, client_pc, receive_pc, program, timed>>
    /\ UNCHANGED <<serverVars, tcpVars, netVars, codecVars, streamClientVars>>

\* Lines 143-149
CSchedRetransmit(i) ==
    /\ ClientRuns
    /\ csched_pc = "entries"
    /\ i \in 1..Len(csched_entries)
    /\ MayRetransmit(csched_entries[i].retries)
    /\ Timeout
    /\ ack_pending_on_server' = Retransmitted(ack_pending_on_server, csched_entries[i])
    /\ csched_entries' = Suffix(csched_entries, i)
    /\ UNCHANGED <<client_seq_num, next_expected_server_seq_num,
                   current_users_set_udp, stop_event, client_pc, receive_pc,
                   csched_pc, program, timed>>
    /\ UNCHANGED <<serverVars, tcpVars, netVars, codecVars, streamClientVars>>

\* A test that takes no abandoned datagram for the registration request.
NeverInitialAuth(seq_num) == FALSE

\* Line 161: the abandoned entry was the registration request.
IsInitialAuth(seq_num) == seq_num = 0

\* Lines 155 and 162: `if gui and gui.root.winfo_exists()` guards every
\* report to the window.
ReportIf(has_gui, c, text) ==
    IF has_gui THEN GuiAfter(c, "display_error_message", text) ELSE c

\* Lines 154-164: the snapshot entry e, pending with its retries used up, is
\* given up.
ClientAbandoned(c, e, has_gui) ==
    LET reported == ReportIf(has_gui, c,
                             <<"Max retries. Giving up on this message.", e.seq_num>>)
        deleted == [reported EXCEPT !.ack_pending_on_server = Del(@, e.seq_num)]
    IN IF IsInitialAuth(e.seq_num)
       THEN [ReportIf(has_gui, deleted,
                      <<"Failed to send initial auth message to server. Disconnecting.">>)
               EXCEPT !.stop_event = TRUE]
       ELSE deleted

\* Lines 154-164
CSchedAbandon(i) ==
    /\ ClientRuns
    /\ csched_pc = "entries"
    /\ i \in 1..Len(csched_entries)
    /\ ~MayRetransmit(csched_entries[i].retries)
    /\ csched_entries[i].seq_num \in DOMAIN ack_pending_on_server
    /\ Timeout
    /\ SetClientGlobals(ClientAbandoned(ClientGlobals, csched_entries[i],
                                        client_pc = "running"))
    /\ csched_entries' = Suffix(csched_entries, i)
    /\ UNCHANGED <<client_pc, receive_pc, csched_pc, program, timed>>
    /\ UNCHANGED <<serverVars, tcpVars, netVars, codecVars, streamClientVars>>

\* Line 158 when the receive thread has deleted the entry since the
\* snapshot: `del` raises KeyError and the scheduler thread ends.
CSchedKeyError(i) ==
    /\ ClientRuns
    /\ csched_pc = "entries"
    /\ i \in 1..Len(csched_entries)
    /\ ~MayRetransmit(csched_entries[i].retries)
    /\ csched_entries[i].seq_num \notin DOMAIN ack_pending_on_server
    /\ Timeout
    /\ csched_pc' = "crashed"
    /\ csched_entries' = <<>>
    /\ UNCHANGED <<clientGlobals, client_pc, receive_pc, program, timed>>
    /\ UNCHANGED <<serverVars, tcpVars, netVars, codecVars, streamClientVars>>

(***************************************************************************)
(* server.py: the stream server.  Each accepted connection is served by a  *)
(* thread of its own running handle_client; the threads share the registry *)
(* (`clients` in server.py: socket -> username).                           *)
(*                                                                         *)
(* A step of a handler thread is an operator on the record of the registry *)
(* (clients), the sockets the server has closed (closed), the records      *)
(* handed to sendall, in order (out), and whether a sendall on the         *)
(* thread's own socket raised (raised).                                    *)
(***************************************************************************)
Socks == {"s1", "s2", "s3"}
NoSock == "None"

\* The registry is a dict: its entries (clients) and the order in which its
\* keys were inserted (order), which is the order of every walk over it.
\* `lose` are the connections whose own thread is in remove_client and
\* deletes its key between the `clients.get` and the `del` of the thread
\* that walks here; `won` are those whose own thread did so.
TcpState ==
    [clients |-> tcp_clients, order |-> tcp_order, closed |-> tcp_closed,
     out |-> <<>>, raised |-> FALSE, lose |-> {}, won |-> {}]

\* A record without sequence or ack number.
TcpMsg(msg_type, payload) ==
    create_message(msg_type, payload, NoneInt, NoneInt, None, None)

\* sendall succeeds on a socket that the server has not closed and whose
\* peer is still there.
CanSend(st, sock) == sock \notin st.closed /\ sock \notin tcp_broken

TcpSend(st, sock, message) == [st EXCEPT !.out = Append(@, Sent(sock, message))]

\* sendall outside any try block of the thread's loop: a failure is the
\* socket.error that ends handle_client.
SendOrRaise(st, sock, message) ==
    IF st.raised THEN st
    ELSE IF CanSend(st, sock) THEN TcpSend(st, sock, message)
    ELSE [st EXCEPT !.raised = TRUE]

\* The walk order of a dict after `del d[key]`.
Without(order, key) == SelectSeq(order, LAMBDA k : k # key)

\* list(clients.keys())
Keys(st) == st.order

\* server.py:31-56 and 58-85
RECURSIVE BroadcastOver(_, _, _, _, _)
RECURSIVE remove_client(_, _)
BroadcastOver(st, keys, i, message, sender_socket) ==
    IF i > Len(keys) \/ st.raised THEN st
    ELSE LET client_sock == keys[i]
             next == IF client_sock = sender_socket THEN st
                     ELSE IF CanSend(st, client_sock)
                     THEN TcpSend(st, client_sock, message)
                     ELSE remove_client(st, client_sock)
         IN BroadcastOver(next, keys, i + 1, message, sender_socket)

broadcast_message(st, message, sender_socket) ==
    BroadcastOver(st, Keys(st), 1, message, sender_socket)

\* Lines 66 and 69 are two steps of the thread.  When the connection's own
\* thread wins the race, it is that thread that deletes, closes and
\* broadcasts, and the `del` of the thread that walks here raises KeyError,
\* which no handler of broadcast_message or remove_client catches.
remove_client(st, client_socket) ==
    IF client_socket \notin DOMAIN st.clients THEN st
    ELSE LET username == st.clients[client_socket]
             removed == [st EXCEPT !.clients = Del(@, client_socket),
                                   !.order = Without(@, client_socket),
                                   !.closed = @ \cup {client_socket}]
             leave_msg == TcpMsg(MSG_TYPE_USER_LEFT,
                                 [username |-> username,
                                  message |-> <<username, "has left the chat.">>])
         IN IF client_socket \in st.lose
            THEN [broadcast_message([removed EXCEPT !.lose = {}], leave_msg, NoSock)
                    EXCEPT !.raised = TRUE, !.won = @ \cup {client_socket}]
            ELSE broadcast_message(removed, leave_msg, NoSock)

\* A test that lets every username pass.
TcpNameAccepted(cs, username_attempt) == FALSE

\* server.py:123: `not username_attempt or username_attempt in clients.values()`
TcpNameRejected(cs, username_attempt) ==
    \/ username_attempt \in {None, ""}
    \/ \E sock \in DOMAIN cs : cs[sock] = username_attempt

\* server.py:108-129 and 157-162: the first record of a connection, up to
\* the test of the username.  The result is the state and the username that
\* passed the test (None when the connection is refused).
TcpAuthCheck(st, sock, data) ==
    LET auth_response == parse_message(data)
        refused(s2) == [st |-> s2, username |-> None]
    IN IF data.kind = "empty" THEN refused(st)
       ELSE IF auth_response = NoneObj
               \/ auth_response.type # MSG_TYPE_AUTH_RESPONSE
       THEN refused(SendOrRaise(st, sock,
                        TcpMsg(MSG_TYPE_ERROR, [error |-> "Authentication failed."])))
       ELSE IF ~IsDict(auth_response.payload) THEN refused(st)
       ELSE LET username_attempt == Get(auth_response.payload, "username", None)
            IN IF TcpNameRejected(st.clients, username_attempt)
               THEN refused(SendOrRaise(st, sock,
                        TcpMsg(MSG_TYPE_ERROR,
                               [error |-> IF username_attempt \in {None, ""}
                                          THEN "Username cannot be empty."
                                          ELSE "Username is already taken."])))
               ELSE [st |-> st, username |-> username_attempt]

\* list(clients.values())
TcpUserList(st) == [i \in DOMAIN st.order |-> st.clients[st.order[i]]]

\* server.py:131-156: the connection is registered under `username`.
TcpRegistered(st, sock, username) ==
    LET inserted == [st EXCEPT !.clients = Put(@, sock, username),
                               !.order = IF sock \in DOMAIN st.clients THEN @
                                         ELSE Append(@, sock)]
        joined == broadcast_message(
                      inserted,
                      TcpMsg(MSG_TYPE_USER_JOINED,
                             [username |-> username,
                              message |-> <<username, "has joined the chat!">>]),
                      sock)
        welcomed == SendOrRaise(joined, sock,
                        TcpMsg(MSG_TYPE_SYSTEM,
                               [message |-> <<"Welcome to the chat,", username>>]))
        user_list_msg == TcpMsg(MSG_TYPE_USER_LIST,
                                [users |-> TcpUserList(welcomed)])
    IN IF ~welcomed.raised /\ CanSend(welcomed, sock)
       THEN TcpSend(welcomed, sock, user_list_msg)
       ELSE welcomed

\* server.py:192-195: the first socket of the registry, in its order, that
\* is registered under recipient_username, or NoSock.
TcpFindRecipient(st, recipient_username) ==
    LET hits == {i \in DOMAIN st.order : st.clients[st.order[i]] = recipient_username}
    IN IF hits = {} THEN NoSock
       ELSE st.order[CHOOSE i \in hits : \A j \in hits : i <= j]

\* server.py:179-231
TcpPrivateCommand(st, sock, username, message, text_payload) ==
    LET parts == Split2(text_payload)
    IN IF Len(parts) < 3
       THEN SendOrRaise(st, sock,
                TcpMsg(MSG_TYPE_ERROR, [error |-> "Invalid private message format."]))
       ELSE LET recipient_username == parts[2]
                private_text == parts[3]
                recipient_socket == TcpFindRecipient(st, recipient_username)
            IN IF recipient_socket # NoSock /\ recipient_socket # sock
               THEN IF CanSend(st, recipient_socket)
                    THEN TcpSend(st, recipient_socket,
                             TcpMsg(MSG_TYPE_PRIVATE_MESSAGE,
                                    DropNone([sender |-> username,
                                              recipient |-> recipient_username,
                                              text |-> private_text,
                                              message_id |->
                                                  Get(message, "message_id", None),
                                              send_timestamp |->
                                                  Get(message, "send_timestamp", None)])))
                    ELSE SendOrRaise(st, sock,
                             TcpMsg(MSG_TYPE_PRIVATE_MESSAGE_FAILED,
                                    [recipient |-> recipient_username,
                                     reason |-> <<"Could not deliver message to",
                                                  recipient_username,
                                                  "(network error).">>]))
               ELSE IF recipient_socket = sock
               THEN SendOrRaise(st, sock,
                        TcpMsg(MSG_TYPE_PRIVATE_MESSAGE_FAILED,
                               [recipient |-> recipient_username,
                                reason |->
                                    <<"You cannot send a private message to yourself.">>]))
               ELSE SendOrRaise(st, sock,
                        TcpMsg(MSG_TYPE_PRIVATE_MESSAGE_FAILED,
                               [recipient |-> recipient_username,
                                reason |-> <<"User", recipient_username,
                                             "not found or is offline.">>]))

\* server.py:172-256: a non-empty record read in the loop of the thread that
\* serves `sock`, whose local variable username is `username`.
TcpHandleRecord(st, sock, username, data) ==
    LET message == parse_message(data)
    IN IF message = NoneObj THEN st
       ELSE IF message.type # MSG_TYPE_MESSAGE THEN st
       ELSE IF ~IsDict(message.payload) THEN [st EXCEPT !.raised = TRUE]
       ELSE LET text_payload == Get(message.payload, "text", <<>>)
            IN IF text_payload = <<>> THEN st
               ELSE IF IsPrivateCommand(text_payload)
               THEN TcpPrivateCommand(st, sock, username, message, text_payload)
               ELSE broadcast_message(
                        st,
                        create_message(MSG_TYPE_MESSAGE,
                                       [sender |-> username, text |-> text_payload],
                                       NoneInt, NoneInt,
                                       Get(message, "message_id", None),
                                       Get(message, "send_timestamp", None)),
                        sock)

\* The records that reach the stream server.
AuthResponse(username) == TcpMsg(MSG_TYPE_AUTH_RESPONSE, [username |-> username])

TextRecord(text, message_id, send_timestamp) ==
    create_message(MSG_TYPE_MESSAGE, [text |-> text], NoneInt, NoneInt,
                   message_id, send_timestamp)

\* Every record of the model: what a property of the handling of one record
\* ranges over.
AnyToStream ==
    Undecodable
      \cup {AuthResponse(u) : u \in Users \cup {""}}
      \cup {TcpMsg(MSG_TYPE_AUTH_RESPONSE, p) : p \in {EmptyDict, NotADict}}
      \cup {TextRecord(t, "m1", "t1") :
              t \in {<<"hi">>, <<"/msg", "alice", "yo">>, <<"/w", "carol", "yo">>}}
      \cup {TextRecord(t, None, None) :
              t \in {<<"hi">>, <<"/w", "alice", "yo", "there">>,
                     <<"/msg", "bob", "yo">>, <<"/msg", "dave", "yo">>,
                     <<"/msg", "carol">>, <<"/msg">>, <<>>}}
      \cup {TcpMsg(MSG_TYPE_MESSAGE, p) : p \in {EmptyDict, NotADict}}
      \cup {TcpMsg(MSG_TYPE_COMMAND, EmptyDict)}

\* The records that arrive in the behaviours explored.
ToStream(sock) ==
    CASE sock = "s1" ->
           {[kind |-> "empty"], [kind |-> "not_json"], AuthResponse("alice"),
            TextRecord(<<"hi">>, "m1", "t1"),
            TextRecord(<<"/msg", "alice", "yo">>, None, None),
            TextRecord(<<"/msg", "bob", "yo">>, "m1", "t1"),
            TcpMsg(MSG_TYPE_MESSAGE, NotADict)}
      [] sock = "s2" ->
           {[kind |-> "empty"], AuthResponse("alice"), AuthResponse("bob"),
            TextRecord(<<"hi">>, None, None)}
      [] OTHER ->
           {[kind |-> "empty"], AuthResponse("carol"), AuthResponse("")}

StreamRuns == program = "tcp_server"

\* The connection's pc and the thread's local variable username.
SetConn(sock, pc, username) ==
    /\ conn_pc' = [conn_pc EXCEPT ![sock] = pc]
    /\ conn_username' = [conn_username EXCEPT ![sock] = username]

SetTcp(st) ==
    /\ tcp_clients' = st.clients
    /\ tcp_order' = st.order
    /\ tcp_closed' = st.closed

\* The connections, other than sock, whose own thread is in remove_client
\* (lines 271 and 66-69) while their key is in the registry.
Racing(sock) ==
    {x \in Socks \ {sock} :
        conn_pc[x] \in {"cleanup", "removing"} /\ x \in DOMAIN tcp_clients}

\* The races the thread of sock may lose in one step: none, or the one with
\* the thread of x.
Races(sock) == {{}} \cup {{x} : x \in Racing(sock)}

Against(lose) == [TcpState EXCEPT !.lose = lose]

\* The step of the thread of sock ended in state st: the registry, the pc
\* of sock, and the end of the threads that won a race in the step.
SetStep(sock, st, pc) ==
    /\ SetTcp(st)
    /\ conn_pc' = [x \in Socks |-> IF x = sock THEN pc
                                   ELSE IF x \in st.won THEN "done"
                                   ELSE conn_pc[x]]
    /\ UNCHANGED conn_username

\* server.py:101-106: a connection is accepted, its thread starts and sends
\* the request for a username.
TcpAccept(sock) ==
    /\ StreamRuns
    /\ conn_pc[sock] = "none"
    /\ SetConn(sock, "auth", None)
    /\ UNCHANGED <<tcp_clients, tcp_order, tcp_closed, tcp_broken>>
    /\ UNCHANGED <<serverVars, clientVars, netVars, modeVars, codecVars, streamClientVars>>

\* The peer of a connection goes away: every later sendall on it fails.
TcpBreak(sock) ==
    /\ StreamRuns
    /\ conn_pc[sock] \in {"auth", "checked", "loop"}
    /\ sock \notin tcp_broken
    /\ tcp_broken' = tcp_broken \cup {sock}
    /\ UNCHANGED <<tcp_clients, tcp_order, tcp_closed, conn_pc, conn_username>>
    /\ UNCHANGED <<serverVars, clientVars, netVars, modeVars, codecVars, streamClientVars>>

\* server.py:108-129: the first record is read and the username tested.
TcpAuth(sock, data) ==
    /\ StreamRuns
    /\ conn_pc[sock] = "auth"
    /\ sock \in tcp_broken => data.kind = "empty"
    /\ LET r == TcpAuthCheck(TcpState, sock, data)
       IN IF r.username = None
          THEN SetConn(sock, "cleanup", None)
          ELSE SetConn(sock, "checked", r.username)
    /\ UNCHANGED <<tcp_clients, tcp_order, tcp_closed, tcp_broken>>
    /\ UNCHANGED <<serverVars, clientVars, netVars, modeVars, codecVars, streamClientVars>>

\* server.py:131-156: the username that passed the test is registered.
TcpRegister(sock) ==
    /\ StreamRuns
    /\ conn_pc[sock] = "checked"
    /\ \E lose \in Races(sock) :
         LET r == TcpRegistered(Against(lose), sock, conn_username[sock])
         IN /\ r.won = lose
            /\ SetStep(sock, r, IF r.raised THEN "cleanup" ELSE "loop")
    /\ UNCHANGED tcp_broken
    /\ UNCHANGED <<serverVars, clientVars, netVars, modeVars, codecVars, streamClientVars>>

\* server.py:165-256: one round of the loop on the record `data`.
TcpRecv(sock, data) ==
    /\ StreamRuns
    /\ conn_pc[sock] = "loop"
    /\ sock \notin tcp_closed
    /\ sock \in tcp_broken => data.kind = "empty"
    /\ IF data.kind = "empty"
       THEN /\ SetConn(sock, "cleanup", conn_username[sock])
            /\ UNCHANGED <<tcp_clients, tcp_order, tcp_closed>>
       ELSE \E lose \in Races(sock) :
              LET r == TcpHandleRecord(Against(lose), sock, conn_username[sock],
                                       data)
              IN /\ r.won = lose
                 /\ SetStep(sock, r, IF r.raised THEN "cleanup" ELSE "loop")
    /\ UNCHANGED tcp_broken
    /\ UNCHANGED <<serverVars, clientVars, netVars, modeVars, codecVars, streamClientVars>>

\* server.py:166 and 259-261: recv raises on a socket that another thread
\* closed.
TcpRecvError(sock) ==
    /\ StreamRuns
    /\ conn_pc[sock] = "loop"
    /\ sock \in tcp_closed
    /\ SetConn(sock, "cleanup", conn_username[sock])
    /\ UNCHANGED <<tcp_clients, tcp_order, tcp_closed, tcp_broken>>
    /\ UNCHANGED <<serverVars, clientVars, netVars, modeVars, codecVars, streamClientVars>>

\* server.py:266-271 and 66-67: the finally block calls remove_client, which
\* reads the username of the connection.  A connection that is not in the
\* registry is left alone (its socket is not closed).
TcpCleanup(sock) ==
    /\ StreamRuns
    /\ conn_pc[sock] = "cleanup"
    /\ SetConn(sock, IF sock \in DOMAIN tcp_clients THEN "removing" ELSE "done",
               conn_username[sock])
    /\ UNCHANGED <<tcp_clients, tcp_order, tcp_closed, tcp_broken>>
    /\ UNCHANGED <<serverVars, clientVars, netVars, modeVars, codecVars, streamClientVars>>

\* server.py:68-80: remove_client of the finally block, from the `del` on.
TcpRemove(sock) ==
    /\ StreamRuns
    /\ conn_pc[sock] = "removing"
    /\ sock \in DOMAIN tcp_clients
    /\ \E lose \in Races(sock) :
         LET r == remove_client(Against(lose), sock)
         IN /\ r.won = lose
            /\ SetStep(sock, r, "done")
    /\ UNCHANGED tcp_broken
    /\ UNCHANGED <<serverVars, clientVars, netVars, modeVars, codecVars, streamClientVars>>

\* server.py:69: another thread's broadcast removed the connection after
\* line 66 read its username; `del` raises KeyError out of the finally
\* block and the thread ends.
TcpRemoveKeyError(sock) ==
    /\ StreamRuns
    /\ conn_pc[sock] = "removing"
    /\ sock \notin DOMAIN tcp_clients
    /\ SetConn(sock, "done", conn_username[sock])
    /\ UNCHANGED <<tcp_clients, tcp_order, tcp_closed, tcp_broken>>
    /\ UNCHANGED <<serverVars, clientVars, netVars, modeVars, codecVars, streamClientVars>>

(***************************************************************************)
(* One client (client_udp.py) and the server (server_udp.py) over a        *)
(* datagram channel that loses, duplicates and reorders.                   *)
(***************************************************************************)
LinkRuns == program = "link"

\* The client's address, as the server sees it.
LinkAddr == "a1"

\* The datagrams of `out` (a sequence of Sent records) that go to address.
SentTo(out, address) == {out[i].data : i \in {j \in DOMAIN out : out[j].to = address}}

Range(seq) == {seq[i] : i \in DOMAIN seq}

IsUdpData(data) == data.kind = "json" /\ data.obj.type = MSG_TYPE_UDP_DATA

\* The sequence number of a data datagram that the handler accepted (it
\* advanced the next-expected counter), as a set.
AcceptedSeq(data, before, after) ==
    IF IsUdpData(data) /\ after = before + 1 THEN {data.obj.seq_num} ELSE {}

LinkStart ==
    /\ LinkRuns
    /\ client_pc = "init"
    /\ LET sent == send_reliable_udp_message(
                       ClientGlobals, MSG_TYPE_AUTH_REQUEST,
                       [username |-> username_global], client_seq_num)
       IN /\ SetClientGlobals([sent EXCEPT !.client_seq_num = @ + 1])
          /\ to_server' = to_server \cup Range(sent.out)
    /\ client_pc' = "running"
    /\ receive_pc' = "recv"
    /\ csched_pc' = "sleep"
    /\ UNCHANGED <<csched_entries, to_client, accepted_by_server, accepted_by_client>>
    /\ UNCHANGED <<serverVars, tcpVars, modeVars, codecVars, streamClientVars>>

LinkGuiSend(message_text) ==
    /\ LinkRuns
    /\ client_pc = "running"
    /\ client_seq_num <= MaxLinkSends
    /\ LET r == gui_send_udp_message(ClientGlobals, message_text)
       IN /\ SetClientGlobals(r)
          /\ to_server' = to_server \cup Range(r.out)
    /\ UNCHANGED <<client_pc, receive_pc, csched_pc, csched_entries,
                   to_client, accepted_by_server, accepted_by_client>>
    /\ UNCHANGED <<serverVars, tcpVars, modeVars, codecVars, streamClientVars>>

\* The channel delivers one of the datagrams sent to the server.
LinkServerReceive(data) ==
    /\ LinkRuns
    /\ data \in to_server
    /\ LET r == handle_udp_message(clients, data, LinkAddr)
       IN /\ WithinBound(r.clients)
          /\ clients' = r.clients
          /\ to_client' = to_client \cup SentTo(r.out, LinkAddr)
          /\ accepted_by_server' =
               accepted_by_server
                 \cup (IF LinkAddr \in DOMAIN clients /\ LinkAddr \in DOMAIN r.clients
                       THEN AcceptedSeq(data, clients[LinkAddr].next_expected_seq_num,
                                        r.clients[LinkAddr].next_expected_seq_num)
                       ELSE {})
    /\ UNCHANGED <<sched_pc, sched_clients, sched_cur, sched_entries,
                   to_server, accepted_by_client>>
    /\ UNCHANGED <<clientVars, tcpVars, modeVars, codecVars, streamClientVars>>

\* The channel delivers one of the datagrams sent to the client.
LinkClientReceive(data) ==
    /\ LinkRuns
    /\ client_pc = "running"
    /\ receive_pc = "recv"
    /\ data \in to_client
    /\ LET r == receive_udp_messages(ClientGlobals, data)
       IN /\ SetClientGlobals(r)
          /\ receive_pc' = IF r.stop_event THEN "done" ELSE "recv"
          /\ to_server' = to_server \cup Range(r.out)
          /\ accepted_by_client' =
               accepted_by_client
                 \cup AcceptedSeq(data, next_expected_server_seq_num,
                                  r.next_expected_server_seq_num)
    /\ UNCHANGED <<client_pc, csched_pc, csched_entries, to_client,
                   accepted_by_server>>
    /\ UNCHANGED <<serverVars, tcpVars, modeVars, codecVars, streamClientVars>>

(***************************************************************************)
(* client.py: the stream client.  Its receive thread handles one record    *)
(* per round of its loop; a round is an operator on the record of the      *)
(* globals it touches, extended with the calls scheduled on the GUI thread *)
(* (gui), in order.                                                        *)
(***************************************************************************)
StreamClientGlobals ==
    [current_users_set |-> current_users_set,
     stop_event |-> client_stop_event,
     gui |-> <<>>]

\* set(users) of a list of names.
Names(users) == {users[i] : i \in DOMAIN users}

\* Lines 186-188: the two texts of an error that end the session.
IsCriticalError(error_text) ==
    error_text \in {"Authentication failed", "Invalid or duplicate username"}

\* client.py:221-226: any other exception ends the receive loop.
StreamClientRaise(c) ==
    [GuiAfter(c, "display_error_message", <<"Receiving error">>)
       EXCEPT !.stop_event = TRUE]

StreamClientIgnores(c, message) == c

\* client.py:127-211: a record that parse_message accepted is dispatched on
\* its type.
StreamClientDispatch(c, message) ==
    LET msg_type == message.type
        payload == message.payload
    IN IF ~IsDict(payload) THEN StreamClientRaise(c)
       ELSE
       CASE msg_type = MSG_TYPE_MESSAGE ->
              LET sender == Get(payload, "sender", "Unknown")
              IN GuiAfter(c, "display_message",
                          <<sender, Get(payload, "text", <<>>), sender = username_global>>)
         [] msg_type = MSG_TYPE_SYSTEM ->
              GuiAfter(c, "display_system_message", <<Get(payload, "message", <<>>)>>)
         [] msg_type = MSG_TYPE_USER_LIST ->
              LET listed == [c EXCEPT !.current_users_set =
                                         Names(Get(payload, "users", <<>>))]
              IN GuiAfter(listed, "update_user_list", <<listed.current_users_set>>)
         [] msg_type = MSG_TYPE_USER_JOINED ->
              LET joined_user == Get(payload, "username", None)
              IN IF joined_user \in {None, ""} THEN c
                 ELSE LET added == [c EXCEPT !.current_users_set = @ \cup {joined_user}]
                      IN GuiAfter(added, "update_user_list",
                                  <<joined_user, "has joined the chat.",
                                    added.current_users_set>>)
         [] msg_type = MSG_TYPE_USER_LEFT ->
              LET left_user == Get(payload, "username", None)
              IN IF left_user \in {None, ""} \/ left_user \notin c.current_users_set
                 THEN c
                 ELSE LET removed == [c EXCEPT !.current_users_set = @ \ {left_user}]
                      IN GuiAfter(removed, "update_user_list",
                                  <<left_user, "has left the chat.",
                                    removed.current_users_set>>)
         [] msg_type = MSG_TYPE_AUTH_REQUEST ->
              GuiAfter(c, "display_system_message",
                       <<"Server:", Get(payload, "message",
                                        "Authentication requested unexpectedly.")>>)
         [] msg_type = MSG_TYPE_ERROR ->
              LET error_text == Get(payload, "error", "Unknown server error.")
                  shown == GuiAfter(c, "display_error_message", <<error_text>>)
              IN IF IsCriticalError(error_text)
                 THEN [GuiAfter(shown, "display_error_message",
                                <<"Critical authentication error. Disconnecting.">>)
                         EXCEPT !.stop_event = TRUE]
                 ELSE shown
         [] msg_type = MSG_TYPE_PRIVATE_MESSAGE ->
              GuiAfter(c, "display_private_message",
                       <<Get(payload, "sender", "Unknown"),
                         Get(payload, "text", <<>>), FALSE>>)
         [] msg_type = MSG_TYPE_PRIVATE_MESSAGE_FAILED ->
              GuiAfter(c, "display_error_message",
                       <<"PM to", Get(payload, "recipient", "Unknown"), "failed:",
                         Get(payload, "reason", "Failed to send private message.")>>)
         [] OTHER ->
              GuiAfter(c, "display_system_message",
                       <<"Received unhandled message type", msg_type, payload>>)

\* client.py:114-211: one round of the receive loop, on the buffer `data`
\* that recv returned.
receive_messages(c, data) ==
    IF data.kind = "empty"
    THEN [GuiAfter(c, "display_error_message",
                   <<"Disconnected from server (connection closed by server).">>)
            EXCEPT !.stop_event = TRUE]
    ELSE LET message == parse_message(data)
         IN IF message = NoneObj
            THEN GuiAfter(c, "display_error_message",
                          <<"Received malformed message from server.">>)
            ELSE StreamClientDispatch(c, message)

\* The records that reach the stream client.
UserListRecord(users) == TcpMsg(MSG_TYPE_USER_LIST, [users |-> users])

UserJoinedRecord(username) ==
    TcpMsg(MSG_TYPE_USER_JOINED,
           [username |-> username, message |-> <<username, "has joined the chat.">>])

UserLeftRecord(username) ==
    TcpMsg(MSG_TYPE_USER_LEFT,
           [username |-> username, message |-> <<username, "has left the chat.">>])

ToStreamClient ==
    Undecodable
      \cup {UserListRecord(users) :
              users \in {<<>>, <<"alice">>, <<"alice", "bob">>, <<"carol", "bob", "carol">>}}
      \cup {TcpMsg(MSG_TYPE_USER_LIST, EmptyDict)}
      \cup {UserJoinedRecord(u) : u \in Users \cup {""}}
      \cup {UserLeftRecord(u) : u \in Users \cup {""}}
      \cup {TcpMsg(MSG_TYPE_USER_JOINED, EmptyDict), TcpMsg(MSG_TYPE_USER_LEFT, EmptyDict)}
      \cup {TcpMsg(MSG_TYPE_MESSAGE, [sender |-> u, text |-> <<"hi">>]) : u \in {"alice", "bob"}}
      \cup {TcpMsg(MSG_TYPE_SYSTEM, [message |-> <<"Welcome", "alice">>]),
            TcpMsg(MSG_TYPE_AUTH_REQUEST, EmptyDict),
            TcpMsg(MSG_TYPE_ERROR, [error |-> "Invalid private message format."]),
            TcpMsg(MSG_TYPE_ERROR, [error |-> "Invalid or duplicate username"]),
            TcpMsg(MSG_TYPE_PRIVATE_MESSAGE,
                   [sender |-> "bob", recipient |-> "alice", text |-> <<"yo">>]),
            TcpMsg(MSG_TYPE_PRIVATE_MESSAGE_FAILED, [recipient |-> "dave"]),
            TcpMsg(MSG_TYPE_COMMAND, EmptyDict),
            TcpMsg(MSG_TYPE_USER_LIST, NotADict)}

\* client.py:114-226: the receive thread handles the next record, and leaves
\* its loop when stop_event is set.
StreamClientReceive(data) ==
    /\ program = "tcp_client"
    /\ ~client_stop_event
    /\ LET r == receive_messages(StreamClientGlobals, data)
       IN /\ current_users_set' = r.current_users_set
          /\ client_stop_event' = r.stop_event
          /\ client_gui' = r.gui
    /\ UNCHANGED <<serverVars, clientVars, tcpVars, netVars, modeVars, codecVars>>

(***************************************************************************)
(* The programs together.  One behaviour is a behaviour of one program.    *)
(***************************************************************************)
InitServer ==
    /\ clients = EmptyDict
    /\ sched_pc = "sleep"
    /\ sched_clients = <<>>
    /\ sched_cur = NoRef
    /\ sched_entries = <<>>

\* client_udp.py:36-52
InitClient ==
    /\ client_seq_num = 0
    /\ next_expected_server_seq_num = 0
    /\ ack_pending_on_server = EmptyDict
    /\ current_users_set_udp = {}
    /\ stop_event = FALSE
    /\ client_pc = "init"
    /\ receive_pc = "idle"
    /\ csched_pc = "idle"
    /\ csched_entries = <<>>

\* server.py:24-27
InitStream ==
    /\ tcp_clients = EmptyDict
    /\ tcp_order = <<>>
    /\ tcp_closed = {}
    /\ tcp_broken = {}
    /\ conn_pc = [sock \in Socks |-> "none"]
    /\ conn_username = [sock \in Socks |-> None]

InitPrograms ==
    /\ InitServer
    /\ InitClient
    /\ InitStream
    /\ to_server = {}
    /\ to_client = {}
    /\ accepted_by_server = {}
    /\ accepted_by_client = {}
    /\ handled = 0
    /\ timeouts = 0
    /\ codec_call = <<>>
    /\ codec_data = <<>>
    /\ codec_message = <<>>
    /\ current_users_set = {}
    /\ client_stop_event = FALSE
    /\ client_gui = <<>>

ServerScheduler ==
    \/ SchedStartCycle
    \/ \E i \in 1..Len(sched_clients) : SchedVisit(i)
    \/ SchedEndCycle
    \/ SchedLeaveClient
    \/ \E i \in 1..Len(sched_entries) : SchedRetransmit(i)
    \/ \E i \in 1..Len(sched_entries) : SchedAbandon(i)
    \/ \E i \in 1..Len(sched_entries) : SchedKeyError(i)
    \/ SchedDelClient

ClientScheduler ==
    \/ CSchedStartCycle
    \/ CSchedEndCycle
    \/ \E i \in 1..Len(csched_entries) : CSchedRetransmit(i)
    \/ \E i \in 1..Len(csched_entries) : CSchedAbandon(i)
    \/ \E i \in 1..Len(csched_entries) : CSchedKeyError(i)

ServerReceives ==
    \E addr \in Addrs :
        \E data \in (IF timed THEN TimedToServer(addr) ELSE ToServer(addr)) :
            ServerReceive(data, addr)

Init ==
    /\ InitPrograms
    /\ program \in {"udp_server", "udp_client", "tcp_server"}
    /\ timed = FALSE

Next ==
    \/ ServerReceives
    \/ StartUdpClient
    \/ \E data \in ToClient : ClientReceive(data)
    \/ \E message_text \in GuiTexts : GuiSend(message_text)
    \/ OnGuiClose
    \/ \E sock \in Socks : TcpAccept(sock)
    \/ \E sock \in Socks : TcpBreak(sock)
    \/ \E sock \in Socks : \E data \in ToStream(sock) : TcpAuth(sock, data)
    \/ \E sock \in Socks : TcpRegister(sock)
    \/ \E sock \in Socks : \E data \in ToStream(sock) : TcpRecv(sock, data)
    \/ \E sock \in Socks : TcpRecvError(sock)
    \/ \E sock \in Socks : TcpCleanup(sock)
    \/ \E sock \in Socks : TcpRemove(sock)
    \/ \E sock \in Socks : TcpRemoveKeyError(sock)

Spec == Init /\ [][Next]_vars

\* The datagram programs where timeouts expire.
InitSched ==
    /\ InitPrograms
    /\ program \in {"udp_server", "udp_client"}
    /\ timed = TRUE

NextSched ==
    \/ ServerReceives
    \/ ServerScheduler
    \/ StartUdpClient
    \/ \E data \in ToClient : ClientReceive(data)
    \/ \E message_text \in GuiTexts : GuiSend(message_text)
    \/ OnGuiClose
    \/ ClientScheduler

SpecSched == InitSched /\ [][NextSched]_vars

\* The datagram programs where timeouts expire, the server from the state
\* in which "alice" is registered at a1 and has acknowledged the welcome and
\* the user list (server_udp.py:243-277 and 288-291).
InitRejecting ==
    /\ program \in {"udp_server", "udp_client"}
    /\ timed = TRUE
    /\ clients = IF program = "udp_server"
                 THEN Put(EmptyDict, "a1", ClientInfo("alice", 1, EmptyDict, 2))
                 ELSE EmptyDict
    /\ sched_pc = "sleep"
    /\ sched_clients = <<>>
    /\ sched_cur = NoRef
    /\ sched_entries = <<>>
    /\ InitClient
    /\ InitStream
    /\ to_server = {}
    /\ to_client = {}
    /\ accepted_by_server = {}
    /\ accepted_by_client = {}
    /\ handled = 0
    /\ timeouts = 0
    /\ codec_call = <<>>
    /\ codec_data = <<>>
    /\ codec_message = <<>>
    /\ current_users_set = {}
    /\ client_stop_event = FALSE
    /\ client_gui = <<>>

SpecRejecting == InitRejecting /\ [][NextSched]_vars

\* One client and the server over the channel.
InitLink ==
    /\ InitPrograms
    /\ program = "link"
    /\ timed = FALSE

NextLink ==
    \/ LinkStart
    \/ \E message_text \in {<<"hi">>, <<"/quit">>} : LinkGuiSend(message_text)
    \/ \E data \in to_server : LinkServerReceive(data)
    \/ \E data \in to_client : LinkClientReceive(data)

SpecLink == InitLink /\ [][NextLink]_vars

\* A data datagram in flight is lost, or the copy that was delivered was the
\* only one: UDP promises neither delivery nor a second copy.
LinkLose(data) ==
    /\ LinkRuns
    /\ \/ data \in to_server /\ to_server' = to_server \ {data} /\ to_client' = to_client
       \/ data \in to_client /\ to_client' = to_client \ {data} /\ to_server' = to_server
    /\ UNCHANGED <<accepted_by_server, accepted_by_client>>
    /\ UNCHANGED <<serverVars, clientVars, tcpVars, modeVars, codecVars, streamClientVars>>

\* Client and server over a channel that loses, duplicates and reorders.
NextLossy ==
    \/ NextLink
    \/ \E data \in {d \in to_server \cup to_client : IsUdpData(d)} : LinkLose(data)

SpecLossy == InitLink /\ [][NextLossy]_vars

\* The datagram programs where timeouts expire and go on expiring: `timeouts`
\* counts the timeouts of a window, and a new window begins when it is full.
NewWindow ==
    /\ program \in {"udp_server", "udp_client"}
    /\ timed
    /\ timeouts = MaxTimeouts
    /\ timeouts' = 0
    /\ UNCHANGED <<program, timed, handled>>
    /\ UNCHANGED <<serverVars, clientVars, tcpVars, netVars, codecVars, streamClientVars>>

\* The entry that has been pending longest in a table, if there is one.
Oldest(pending) == {s \in DOMAIN pending : \A t \in DOMAIN pending : s <= t}

\* The addresses that datagrams come from.
Linked == {a \in Addrs : TimedToServer(a) # {}}

\* The server's scheduler comes to the client at `a` (line 97), and the
\* timeout of the oldest pending entry of that client expires (line 100);
\* the same for the client's scheduler (client_udp.py:143).
ServerVisits(a) ==
    \E i \in 1..Len(sched_clients) : sched_clients[i].addr = a /\ SchedVisit(i)

ServerExpires(a) ==
    \E i \in 1..Len(sched_entries) :
        /\ sched_cur.addr = a
        /\ sched_entries[i].seq_num \in Oldest(Deref(clients, sched_cur).ack_pending)
        /\ SchedRetransmit(i) \/ SchedAbandon(i)

ClientExpires ==
    \E i \in 1..Len(csched_entries) :
        /\ csched_entries[i].seq_num \in Oldest(ack_pending_on_server)
        /\ CSchedRetransmit(i) \/ CSchedAbandon(i)

NextFair == NextSched \/ NewWindow

\* The scheduler threads are scheduled fairly: a scheduler that can take a
\* step takes one; its cycle walks every client of the snapshot, and an
\* entry that stays pending grows older than RETRANSMISSION_TIMEOUT while
\* the scheduler sleeps and wakes (server_udp.py:121, client_udp.py:165), so
\* that the timeout of the oldest entry of a table, which can expire again
\* and again, does expire.
FairScheduling ==
    /\ WF_vars(ServerScheduler)
    /\ WF_vars(ClientScheduler)
    /\ WF_vars(NewWindow)
    /\ \A a \in Linked : SF_vars(ServerVisits(a))
    /\ \A a \in Linked : SF_vars(ServerExpires(a))
    /\ SF_vars(ClientExpires)

SpecFair == InitSched /\ [][NextFair]_vars /\ FairScheduling

\* The two clients, each on its own: the datagram client as above, and the
\* stream client after start_client has connected and registered
\* (client.py:366-412).
InitClients ==
    /\ InitPrograms
    /\ program \in {"udp_client", "tcp_client"}
    /\ timed = FALSE

NextClients ==
    \/ StartUdpClient
    \/ \E data \in ToClient : ClientReceive(data)
    \/ \E message_text \in GuiTexts : GuiSend(message_text)
    \/ OnGuiClose
    \/ \E data \in ToStreamClient : StreamClientReceive(data)

SpecClients == InitClients /\ [][NextClients]_vars

(***************************************************************************)
(* Properties.  A property of the handling of one datagram is stated for   *)
(* every reachable state and every datagram of the model that may arrive   *)
(* in it.                                                                  *)
(***************************************************************************)
\* The addresses that hold a username.
Registered(cs) == {a \in DOMAIN cs : cs[a].username # None}

\* The reliable data datagrams a peer may send to the server, and the
\* server to the client.
DataToServer == {DataMsg(MSG_TYPE_UDP_DATA, p, s) : p \in ChatPayloads, s \in SeqNums}

DataToClient == {DataMsg(MSG_TYPE_UDP_DATA, p, s) : p \in ServerEvents, s \in SeqNums}

\* The server's acknowledgment of sequence number seq_num is the one
\* datagram of `out`, and it goes to addr.
OnlyAck(out, addr, seq_num) ==
    /\ Len(out) = 1
    /\ out[1].to = addr
    /\ out[1].data.kind = "json"
    /\ out[1].data.obj.type = MSG_TYPE_UDP_ACK
    /\ out[1].data.obj.ack_num = seq_num
    /\ "seq_num" \notin DOMAIN out[1].data.obj

\* The dispatch of the payload on the server sends something to someone:
\* a text to relay while another peer is registered, or a private command.
HasEffect(cs, addr, payload) ==
    /\ IsDict(payload)
    /\ Get(payload, "original_type", MSG_TYPE_MESSAGE) = MSG_TYPE_MESSAGE
    /\ LET text == Get(Get(payload, "message_content", EmptyDict), "text", <<>>)
       IN /\ text # <<>>
          /\ IsPrivateCommand(text) \/ Registered(cs) \ {addr} # {}

\* The dispatch of the payload on the client is one call on the GUI.
IsShown(payload) ==
    /\ IsDict(payload)
    /\ Get(payload, "original_type", None) \in
         {MSG_TYPE_MESSAGE, MSG_TYPE_SYSTEM, MSG_TYPE_PRIVATE_MESSAGE,
          MSG_TYPE_PRIVATE_MESSAGE_FAILED, MSG_TYPE_ERROR, MSG_TYPE_USER_LIST}

C1_Server ==
    program = "udp_server" =>
      \A addr \in Registered(clients) : \A data \in DataToServer :
          LET seq == data.obj.seq_num
              n == clients[addr].next_expected_seq_num
              r == handle_udp_message(clients, data, addr)
          IN IF seq = n
             THEN /\ r.clients[addr].next_expected_seq_num = n + 1
                  /\ HasEffect(clients, addr, data.obj.payload) => Len(r.out) > 1
             ELSE /\ r.clients = clients
                  /\ OnlyAck(r.out, addr, seq)

C1_Client ==
    (program = "udp_client" /\ receive_pc = "recv") =>
      \A data \in DataToClient :
          LET seq == data.obj.seq_num
              n == next_expected_server_seq_num
              r == receive_udp_messages(ClientGlobals, data)
          IN IF seq = n
             THEN /\ r.next_expected_server_seq_num = n + 1
                  /\ IsShown(data.obj.payload) => Len(r.gui) = 1
             ELSE /\ SameGlobals(r)
                  /\ IF seq < n THEN Len(r.gui) = 0
                     ELSE /\ Len(r.gui) = 1
                          /\ r.gui[1].call = "display_error_message"
                          /\ r.gui[1].args = <<"Out-of-order server seq", seq>>

\* C1: sequence gating.  On the server (data from a registered peer) and on
\* the client (data from the server), a data datagram whose seq equals the
\* link's next-expected counter advances the counter by exactly 1 and has
\* its payload dispatched; a datagram with any other seq, lower or higher,
\* leaves the whole state as it was and dispatches nothing (the server sends
\* only the acknowledgment, the client shows at most the out-of-order note).
C1_SequenceGating == C1_Server /\ C1_Client

\* C1: a peer's datagram was accepted after its registration with seq 0, and
\* its text was relayed to another registered peer.
C1_Witness ==
    /\ program = "udp_server"
    /\ \E a, b \in Registered(clients) :
         /\ a # b
         /\ clients[a].next_expected_seq_num = 2
         /\ \E s \in DOMAIN clients[b].ack_pending :
              LET payload == clients[b].ack_pending[s].data.obj.payload
              IN /\ payload.original_type = MSG_TYPE_MESSAGE
                 /\ payload.message_content.sender = clients[a].username

\* The places of the acknowledgments in a sequence of datagrams.
Acks(datagrams) ==
    {i \in DOMAIN datagrams :
        /\ datagrams[i].kind = "json"
        /\ datagrams[i].obj.type = MSG_TYPE_UDP_ACK}

\* The datagrams of `out` (a sequence of Sent records), without addresses.
Datagrams(out) == [i \in DOMAIN out |-> out[i].data]

\* Exactly one of the datagrams is an acknowledgment, and it carries seq.
OneAckOf(datagrams, seq) ==
    \E i \in DOMAIN datagrams :
        /\ Acks(datagrams) = {i}
        /\ datagrams[i].obj.ack_num = seq
        /\ "seq_num" \notin DOMAIN datagrams[i].obj

C2_Server ==
    program = "udp_server" =>
      \A addr \in Registered(clients) : \A data \in DataToServer :
          LET r == handle_udp_message(clients, data, addr)
          IN /\ OneAckOf(Datagrams(r.out), data.obj.seq_num)
             /\ \A i \in Acks(Datagrams(r.out)) : r.out[i].to = addr

C2_Client ==
    (program = "udp_client" /\ receive_pc = "recv") =>
      \A data \in DataToClient :
          LET r == receive_udp_messages(ClientGlobals, data)
          IN /\ OneAckOf(r.out, data.obj.seq_num)
             /\ Len(r.out) = 1

\* C2: unconditional acknowledgment.  Every data datagram with a seq that
\* the server receives from a registered peer, or the client from the
\* server, whether its seq is the expected one, lower or higher, makes the
\* receiver send exactly one acknowledgment, to the sender, whose ack number
\* is that seq.
C2_UnconditionalAck == C2_Server /\ C2_Client

\* C2: the client has received (and acknowledged) data from the server in
\* order, and still receives.
C2_Witness ==
    /\ program = "udp_client"
    /\ receive_pc = "recv"
    /\ next_expected_server_seq_num >= 2

\* The acknowledgments a peer may send.
AcksToServer ==
    {AckMsg(EmptyDict, a) : a \in SeqNums}
      \cup {create_message(MSG_TYPE_UDP_ACK, EmptyDict, NoneInt, NoneInt, None, None)}

AcksToClient ==
    {AckMsg([status |-> "Server received your data"], a) : a \in SeqNums}
      \cup {create_message(MSG_TYPE_UDP_ACK, EmptyDict, NoneInt, NoneInt, None, None)}

C3_Server ==
    program = "udp_server" =>
      \A addr \in Addrs : \A data \in AcksToServer :
          LET ack == Get(data.obj, "ack_num", NoneInt)
              once == handle_udp_message(clients, data, addr)
              twice == handle_udp_message(once.clients, data, addr)
          IN /\ twice.clients = once.clients
             /\ Len(once.out) = 0 /\ Len(twice.out) = 0
             /\ IF addr \in Registered(clients)
                   /\ ack \in DOMAIN clients[addr].ack_pending
                THEN once.clients =
                       [clients EXCEPT ![addr].ack_pending = Del(@, ack)]
                ELSE once.clients = clients

C3_Client ==
    (program = "udp_client" /\ receive_pc = "recv") =>
      \A data \in AcksToClient :
          LET ack == Get(data.obj, "ack_num", NoneInt)
              once == receive_udp_messages(ClientGlobals, data)
              twice == receive_udp_messages(once, data)
          IN /\ twice = once
             /\ Len(once.out) = 0 /\ Len(once.gui) = 0
             /\ IF ack \in DOMAIN ack_pending_on_server
                THEN once = [ClientGlobals EXCEPT
                               !.ack_pending_on_server = Del(@, ack)]
                ELSE once = ClientGlobals

\* C3: acknowledgment handling is idempotent.  On the server and on the
\* client, handling the same acknowledgment twice leaves the state that
\* handling it once leaves; an acknowledgment whose number is in the pending
\* table removes that entry and nothing else, one whose number is not
\* (unknown, already retired, or absent) changes nothing; and no
\* acknowledgment makes the receiver send anything.
C3_AckIdempotent == C3_Server /\ C3_Client

\* C3: the server's welcome (its sequence number 0) was retired by the
\* peer's acknowledgment while the user list (1) is still pending.
C3_Witness ==
    /\ program = "udp_server"
    /\ \E a \in Registered(clients) :
         /\ clients[a].server_to_client_seq_num >= 2
         /\ 0 \notin DOMAIN clients[a].ack_pending
         /\ 1 \in DOMAIN clients[a].ack_pending

\* The retry count of every entry of a pending table is within 0..MAX_RETRIES.
RetriesInRange(pending) ==
    \A s \in DOMAIN pending : pending[s].retries \in 0..MAX_RETRIES

C4_RetriesInRange ==
    /\ \A a \in DOMAIN clients : RetriesInRange(clients[a].ack_pending)
    /\ ~IsLive(sched_cur) => RetriesInRange(sched_cur.orphan.ack_pending)
    /\ RetriesInRange(ack_pending_on_server)
    /\ \A i \in DOMAIN sched_entries : sched_entries[i].retries <= MAX_RETRIES
    /\ \A i \in DOMAIN csched_entries : csched_entries[i].retries <= MAX_RETRIES

\* What one expired timeout does to the snapshot entry e of the pending
\* table that is `after` afterwards: the entry is written back with one more
\* retry (the retransmission) while its retries are below MAX_RETRIES, and
\* is absent (abandoned) once they have reached MAX_RETRIES.
C4_Expiry(e, after) ==
    IF e.retries < MAX_RETRIES
    THEN /\ e.seq_num \in DOMAIN after
         /\ after[e.seq_num] = PendingEntry(e.data, e.retries + 1)
    ELSE /\ e.retries = MAX_RETRIES
         /\ e.seq_num \notin DOMAIN after

\* The expiry of the snapshot entry the server's scheduler has just left.
C4_ServerExpiry ==
    C4_Expiry(sched_entries[Len(sched_entries) - Len(sched_entries')],
              Deref(clients', sched_cur').ack_pending)

\* The expiry of the snapshot entry the client's scheduler has just left.
C4_ClientExpiry ==
    C4_Expiry(csched_entries[Len(csched_entries) - Len(csched_entries')],
              ack_pending_on_server')

\* Every expired timeout of the server's scheduler retransmits or abandons
\* its entry, and the scheduler goes on to the next entry.
C4_ServerStep ==
    (program = "udp_server" /\ timeouts' # timeouts) =>
      /\ timeouts' = timeouts + 1
      /\ sched_pc' # "crashed"
      /\ Len(sched_entries') < Len(sched_entries)
      /\ C4_ServerExpiry

\* The same for the client's scheduler.
C4_ClientStep ==
    (program = "udp_client" /\ timeouts' # timeouts) =>
      /\ timeouts' = timeouts + 1
      /\ csched_pc' # "crashed"
      /\ Len(csched_entries') < Len(csched_entries)
      /\ C4_ClientExpiry

\* C4: bounded retransmission, for the server's scheduler and the client's.
\* A pending entry is created with retry count 0 by the send; each expired
\* timeout on it either retransmits it and adds exactly 1 to its retry count
\* (while the count is below MAX_RETRIES) or removes it (once the count is
\* MAX_RETRIES), and the scheduler lives on to serve the next timeout; no
\* retry count ever exceeds MAX_RETRIES.  So an entry that is never
\* acknowledged is retransmitted MAX_RETRIES times, once per expired
\* timeout, and removed by the next one: never a fourth time.
C4_BoundedRetransmission ==
    []C4_RetriesInRange /\ [][C4_ServerStep /\ C4_ClientStep]_vars

\* The scheduler's thread ends on an entry whose retries are used up and
\* that the receiving thread has removed from the table since the snapshot.
C4_Crash(entries, pending) ==
    \E i \in DOMAIN entries :
        /\ entries[i].retries = MAX_RETRIES
        /\ entries[i].seq_num \notin DOMAIN pending

C4_ServerStepOrCrash ==
    (program = "udp_server" /\ timeouts' # timeouts) =>
      /\ timeouts' = timeouts + 1
      /\ Len(sched_entries') < Len(sched_entries)
      /\ IF sched_pc' = "crashed"
         THEN C4_Crash(sched_entries, Deref(clients, sched_cur).ack_pending)
         ELSE C4_ServerExpiry

C4_ClientStepOrCrash ==
    (program = "udp_client" /\ timeouts' # timeouts) =>
      /\ timeouts' = timeouts + 1
      /\ Len(csched_entries') < Len(csched_entries)
      /\ IF csched_pc' = "crashed"
         THEN C4_Crash(csched_entries, ack_pending_on_server)
         ELSE C4_ClientExpiry

\* The part of bounded retransmission that holds: no retry count exceeds
\* MAX_RETRIES, and every expired timeout retransmits with one more retry,
\* abandons at MAX_RETRIES, or ends the scheduler's thread on an entry that
\* was acknowledged between the snapshot and its removal.
C4_RetryBound ==
    []C4_RetriesInRange /\ [][C4_ServerStepOrCrash /\ C4_ClientStepOrCrash]_vars

\* The scheduler's thread has ended while an entry that was retransmitted
\* fewer than MAX_RETRIES times is still pending: nothing retransmits or
\* abandons it any more.
C4_Stranded ==
    \/ /\ program = "udp_server"
       /\ sched_pc = "crashed"
       /\ \E a \in DOMAIN clients : \E s \in DOMAIN clients[a].ack_pending :
            clients[a].ack_pending[s].retries < MAX_RETRIES
    \/ /\ program = "udp_client"
       /\ csched_pc = "crashed"
       /\ ~stop_event
       /\ \E s \in DOMAIN ack_pending_on_server :
            ack_pending_on_server[s].retries < MAX_RETRIES

\* C4: the server registered a peer, handled no other datagram, and
\* MAX_RETRIES + 1 timeouts expired on the welcome (sequence number 0): it
\* is gone, while the user list (1) was never retransmitted.
C4_Witness ==
    /\ program = "udp_server"
    /\ handled = 1
    /\ timeouts = MAX_RETRIES + 1
    /\ \E a \in Registered(clients) :
         /\ DOMAIN clients[a].ack_pending = {1}
         /\ clients[a].ack_pending[1].retries = 0

C5_UniqueUsernames ==
    \A a, b \in Registered(clients) :
        a # b => clients[a].username # clients[b].username

\* C5: username uniqueness on the datagram server.  In every state reached
\* by registration attempts, leave notices, acknowledgments and the steps of
\* the retransmission scheduler, no two registry entries that hold a
\* username hold the same one.
C5_UsernameUniqueness == program = "udp_server" => C5_UniqueUsernames

\* C5: a peer is registered, and a second peer that asked for the same name
\* has an entry without a username.
C5_Witness ==
    /\ program = "udp_server"
    /\ \E a, b \in DOMAIN clients :
         /\ clients[a].username = "alice"
         /\ clients[b].username = None
         /\ clients[b].server_to_client_seq_num = 1

\* C6: concurrent registration on the stream server.  Of the connection
\* handlers that submit the same username exactly one becomes registered:
\* in every state, under every interleaving of the handlers, no two sockets
\* of the registry hold the same username.
C6_ConcurrentRegistration ==
    program = "tcp_server" =>
      \A s, t \in DOMAIN tcp_clients :
          s # t => tcp_clients[s] # tcp_clients[t]

\* The broadcasts of the datagram server: a relayed text, the notice of a
\* join, and an event of a type that is sent without sequence number.
C7_Events ==
    {[content |-> [sender |-> "alice", text |-> <<"hi">>],
      original_type |-> MSG_TYPE_MESSAGE],
     [content |-> [username |-> "bob", message |-> <<"bob", "has joined the chat!">>],
      original_type |-> MSG_TYPE_USER_JOINED],
     [content |-> [error |-> "Server shutting down."],
      original_type |-> MSG_TYPE_ERROR]}

\* The datagram carries the event.
Carries(data, content, original_type) ==
    /\ data.kind = "json"
    /\ IF original_type \in ReliableBroadcastTypes
       THEN /\ data.obj.type = MSG_TYPE_UDP_DATA
            /\ data.obj.payload = UdpDataPayload(content, original_type)
       ELSE /\ data.obj.type = original_type
            /\ data.obj.payload = content

\* The places of `out` where something is sent to `to`.
PlacesTo(out, to) == {i \in DOMAIN out : out[i].to = to}

C7_Datagram ==
    program = "udp_server" =>
      \A exclude \in Addrs \cup {None} : \A ev \in C7_Events :
          LET r == broadcast_to_clients(
                       [clients |-> clients, out |-> <<>>, dropped |-> {}],
                       ev.content, ev.original_type, exclude)
          IN /\ \A a \in Addrs :
                  Cardinality(PlacesTo(r.out, a)) =
                    IF a \in Registered(clients) \ {exclude} THEN 1 ELSE 0
             /\ \A i \in DOMAIN r.out :
                  Carries(r.out[i].data, ev.content, ev.original_type)

\* The places of `out` with a relayed text.
Relayed(out) ==
    {i \in DOMAIN out :
        /\ out[i].data.obj.type = MSG_TYPE_UDP_DATA
        /\ out[i].data.obj.payload.original_type = MSG_TYPE_MESSAGE}

C7_DatagramRelay ==
    program = "udp_server" =>
      \A addr \in Registered(clients) :
          LET data == DataMsg(MSG_TYPE_UDP_DATA, Chat(WithIds(<<"hi">>)),
                              clients[addr].next_expected_seq_num)
              r == handle_udp_message(clients, data, addr)
          IN /\ \A a \in Addrs :
                  Cardinality(PlacesTo(r.out, a) \cap Relayed(r.out)) =
                    IF a \in Registered(clients) \ {addr} THEN 1 ELSE 0
             /\ \A i \in Relayed(r.out) :
                  r.out[i].data.obj.payload.message_content =
                    [sender |-> clients[addr].username, text |-> <<"hi">>,
                     message_id |-> "m1", send_timestamp |-> "t1"]
             /\ \A i \in PlacesTo(r.out, addr) :
                  r.out[i].data.obj.type = MSG_TYPE_UDP_ACK

\* The events the stream server broadcasts: a relayed text and the notice of
\* a join.
C7_Records ==
    {create_message(MSG_TYPE_MESSAGE, [sender |-> "alice", text |-> <<"hi">>],
                    NoneInt, NoneInt, "m1", "t1"),
     TcpMsg(MSG_TYPE_USER_JOINED,
            [username |-> "bob", message |-> <<"bob", "has joined the chat!">>])}

\* The sessions of the stream server that a record can be delivered to:
\* registered, and the peer still there.
Deliverable == {sock \in DOMAIN tcp_clients : CanSend(TcpState, sock)}

C7_Stream ==
    program = "tcp_server" =>
      \A sender_socket \in Socks \cup {NoSock} : \A message \in C7_Records :
          LET r == broadcast_message(TcpState, message, sender_socket)
          IN \A sock \in Socks :
                Cardinality({i \in PlacesTo(r.out, sock) : r.out[i].data = message}) =
                  IF sock \in Deliverable \ {sender_socket} THEN 1 ELSE 0

C7_StreamRelay ==
    program = "tcp_server" =>
      \A sender_socket \in DOMAIN tcp_clients :
          (conn_pc[sender_socket] = "loop" /\ sender_socket \notin tcp_closed) =>
            LET username == conn_username[sender_socket]
                r == TcpHandleRecord(TcpState, sender_socket, username,
                                     TextRecord(<<"hi">>, "m1", "t1"))
                message == create_message(MSG_TYPE_MESSAGE,
                                          [sender |-> username, text |-> <<"hi">>],
                                          NoneInt, NoneInt, "m1", "t1")
            IN \A sock \in Socks :
                  Cardinality({i \in PlacesTo(r.out, sock) :
                                  r.out[i].data = message}) =
                    IF sock \in Deliverable \ {sender_socket} THEN 1 ELSE 0

\* C7: broadcast exclusion.  On the datagram server, broadcast_to_clients
\* with an excluded address sends the event exactly once to every registered
\* address other than the excluded one, and nothing to any other address; a
\* text relayed for a registered sender reaches every other registered
\* address once and the sender gets only the acknowledgment.  On the stream
\* server, broadcast_message with an excluded socket delivers the record
\* exactly once to every registered socket other than the excluded one whose
\* peer is still there, and never to the excluded one; a relayed text is not
\* sent back to its sender.
C7_BroadcastExclusion ==
    C7_Datagram /\ C7_DatagramRelay /\ C7_Stream /\ C7_StreamRelay

\* C7: on the datagram server a text of one registered peer is pending for
\* another registered peer and for no entry of the sender itself.
C7_Witness ==
    /\ program = "udp_server"
    /\ \E a, b \in Registered(clients) :
         /\ a # b
         /\ \E s \in DOMAIN clients[b].ack_pending :
              Carries(clients[b].ack_pending[s].data,
                      [sender |-> clients[a].username, text |-> <<"hi">>,
                       message_id |-> "m1", send_timestamp |-> "t1"],
                      MSG_TYPE_MESSAGE)
         /\ \A s \in DOMAIN clients[a].ack_pending :
              clients[a].ack_pending[s].data.obj.payload.original_type
                # MSG_TYPE_MESSAGE

\* The step retires the entry s of the pending table: the table afterwards
\* is the table before without s, which is what the handling of a matching
\* acknowledgment does.
Retires(before, after, s) ==
    /\ s \in DOMAIN before
    /\ IsUdpData(before[s].data)
    /\ after = Del(before, s)

\* A data datagram of the client leaves its pending table only when the
\* server has accepted that sequence number.
C8_ClientRetires ==
    \A s \in DOMAIN ack_pending_on_server :
        Retires(ack_pending_on_server, ack_pending_on_server', s)
          => s \in accepted_by_server'

\* A data datagram of the server leaves the pending table of the client's
\* entry only when the client has accepted that sequence number.
C8_ServerRetires ==
    (LinkAddr \in DOMAIN clients /\ LinkAddr \in DOMAIN clients') =>
      \A s \in DOMAIN clients[LinkAddr].ack_pending :
          Retires(clients[LinkAddr].ack_pending, clients'[LinkAddr].ack_pending, s)
            => s \in accepted_by_client'

\* C8: at-least-once-until-acknowledged delivery.  Over a channel that
\* loses, duplicates and reorders, whenever a matching acknowledgment
\* retires a sender's pending data datagram with sequence number s, the
\* receiver of that link has accepted s (advanced its counter past it and
\* dispatched the payload) in that step or earlier; for the client's sends
\* and for the server's.
C8_DeliveredWhenRetired ==
    [][program = "link" => (C8_ClientRetires /\ C8_ServerRetires)]_vars

\* The two spellings of the private-message command.
PrivateCommands == {"/msg", "/w"}

\* The datagram is the failed-private-message event for `recipient` with
\* the given reason, sent as reliable data.
IsFailedEvent(data, recipient, reason) ==
    /\ data.kind = "json"
    /\ data.obj.type = MSG_TYPE_UDP_DATA
    /\ data.obj.payload =
         UdpDataPayload([recipient |-> recipient, reason |-> reason],
                        MSG_TYPE_PRIVATE_MESSAGE_FAILED)

\* The handling of datagram `data` from addr changed nothing but the entry
\* of addr itself.
OnlyOwnEntry(r, addr) ==
    /\ DOMAIN r.clients = DOMAIN clients
    /\ \A a \in DOMAIN clients \ {addr} : r.clients[a] = clients[a]

C9_Datagram ==
    program = "udp_server" =>
      \A addr \in Registered(clients) : \A cmd \in PrivateCommands :
          LET text == <<cmd, clients[addr].username, "yo">>
              data == DataMsg(MSG_TYPE_UDP_DATA, Chat(WithIds(text)),
                              clients[addr].next_expected_seq_num)
              r == handle_udp_message(clients, data, addr)
          IN /\ Len(r.out) = 2
             /\ PlacesTo(r.out, addr) = {1, 2}
             /\ r.out[1].data.obj.type = MSG_TYPE_UDP_ACK
             /\ IsFailedEvent(r.out[2].data, clients[addr].username,
                              <<"You cannot send a private message to yourself.">>)
             /\ OnlyOwnEntry(r, addr)

\* The handler threads of the stream server that can read a record and
\* answer it: in the loop, the socket open and the peer there.
Serving == {sock \in DOMAIN tcp_clients :
              conn_pc[sock] = "loop" /\ CanSend(TcpState, sock)}

\* What the stream server sends on a private message of `sock` to itself.
SelfMessage(sock, cmd) ==
    TcpHandleRecord(TcpState, sock, conn_username[sock],
                    TextRecord(<<cmd, conn_username[sock], "yo">>, "m1", "t1"))

\* The record is the failed-private-message event of the stream server.
FailedRecord(recipient, reason) ==
    TcpMsg(MSG_TYPE_PRIVATE_MESSAGE_FAILED,
           [recipient |-> recipient, reason |-> reason])

C9_StreamSelf(sock) ==
    \A cmd \in PrivateCommands :
        SelfMessage(sock, cmd).out =
          <<Sent(sock, FailedRecord(conn_username[sock],
                     <<"You cannot send a private message to yourself.">>))>>

C9_Stream == program = "tcp_server" => \A sock \in Serving : C9_StreamSelf(sock)

\* C9: private message to self.  When a registered user sends the text
\* `/msg <own username> <body>` or `/w <own username> <body>`, the server
\* sends that user the failed-private-message event with the reason "You
\* cannot send a private message to yourself." and sends nothing to any
\* other session; on the datagram server (next to the acknowledgment) and
\* on the stream server.
C9_PrivateMessageToSelf == C9_Datagram /\ C9_Stream

\* The part of C9 that holds on the stream server: the sender whose
\* username no other socket of the registry holds gets the failure event.
C9_StreamUnique ==
    program = "tcp_server" =>
      \A sock \in Serving :
          (\A other \in DOMAIN tcp_clients \ {sock} :
               tcp_clients[other] # tcp_clients[sock])
            => C9_StreamSelf(sock)

\* The usernames a private message may name.
C10_Names == Users \cup {"dave"}

\* The reason given for a recipient that was not found.
NotFound(recipient_username) ==
    <<"User", recipient_username, "not found or is offline.">>

C10_Datagram ==
    program = "udp_server" =>
      \A addr \in Registered(clients) : \A cmd \in PrivateCommands :
        \A recipient \in C10_Names :
          (\A a \in Registered(clients) : clients[a].username # recipient) =>
            LET data == DataMsg(MSG_TYPE_UDP_DATA,
                                Chat(WithIds(<<cmd, recipient, "yo", "there">>)),
                                clients[addr].next_expected_seq_num)
                r == handle_udp_message(clients, data, addr)
            IN /\ Len(r.out) = 2
               /\ PlacesTo(r.out, addr) = {1, 2}
               /\ r.out[1].data.obj.type = MSG_TYPE_UDP_ACK
               /\ IsFailedEvent(r.out[2].data, recipient, NotFound(recipient))
               /\ OnlyOwnEntry(r, addr)

C10_Stream ==
    program = "tcp_server" =>
      \A sock \in Serving : \A cmd \in PrivateCommands :
        \A recipient \in C10_Names :
          (\A other \in DOMAIN tcp_clients : tcp_clients[other] # recipient) =>
            LET r == TcpHandleRecord(
                         TcpState, sock, conn_username[sock],
                         TextRecord(<<cmd, recipient, "yo", "there">>, "m1", "t1"))
            IN /\ r.out = <<Sent(sock, FailedRecord(recipient, NotFound(recipient)))>>
               /\ r.clients = tcp_clients

\* C10: private message to an unknown user.  When the recipient named by a
\* private-message command is the username of no registered session, the
\* server sends the sender the failed-private-message event that names the
\* recipient, with the reason "User '<recipient>' not found or is offline.",
\* and sends nothing to any other session (on the datagram server the
\* sender also gets the acknowledgment, and no other entry changes).
C10_UnknownRecipient == C10_Datagram /\ C10_Stream

\* C10: a registered peer of the datagram server, the only one, has the
\* failure event for a private message to bob pending.
C10_Witness ==
    /\ program = "udp_server"
    /\ \E addr \in Registered(clients) :
         /\ Registered(clients) = {addr}
         /\ \E s \in DOMAIN clients[addr].ack_pending :
              IsFailedEvent(clients[addr].ack_pending[s].data, "bob",
                            NotFound("bob"))

\* The content of the private-message event for a command with identifier
\* "m1" and timestamp "t1" and the body <<"yo", "there">>.
PrivateContent(sender, recipient) ==
    [sender |-> sender, recipient |-> recipient, text |-> <<"yo", "there">>,
     message_id |-> "m1", send_timestamp |-> "t1"]

\* The entry of a peer after one more reliable send of `data` to it.
AfterSend(info, data) ==
    [info EXCEPT !.ack_pending =
                    Put(@, info.server_to_client_seq_num, PendingEntry(data, 0)),
                 !.server_to_client_seq_num = @ + 1]

C11_Datagram ==
    program = "udp_server" =>
      \A addr, to \in Registered(clients) : \A cmd \in PrivateCommands :
        (to # addr) =>
          LET recipient == clients[to].username
              data == DataMsg(MSG_TYPE_UDP_DATA,
                              Chat(WithIds(<<cmd, recipient, "yo", "there">>)),
                              clients[addr].next_expected_seq_num)
              r == handle_udp_message(clients, data, addr)
              event == DataMsg(MSG_TYPE_UDP_DATA,
                               UdpDataPayload(
                                   PrivateContent(clients[addr].username, recipient),
                                   MSG_TYPE_PRIVATE_MESSAGE),
                               clients[to].server_to_client_seq_num)
          IN /\ Len(r.out) = 2
             /\ r.out[1].to = addr
             /\ r.out[1].data.obj.type = MSG_TYPE_UDP_ACK
             /\ r.out[2] = Sent(to, event)
             /\ r.clients =
                  [clients EXCEPT ![addr].next_expected_seq_num = @ + 1,
                                  ![to] = AfterSend(@, event)]

C11_Stream ==
    program = "tcp_server" =>
      \A sock \in Serving : \A cmd \in PrivateCommands :
        \A recipient \in Users \ {conn_username[sock]} :
          LET holders == {to \in DOMAIN tcp_clients : tcp_clients[to] = recipient}
              r == TcpHandleRecord(
                       TcpState, sock, conn_username[sock],
                       TextRecord(<<cmd, recipient, "yo", "there">>, "m1", "t1"))
          IN (holders # {} /\ holders \subseteq Deliverable) =>
               /\ \E to \in holders \ {sock} :
                    r.out = <<Sent(to, TcpMsg(MSG_TYPE_PRIVATE_MESSAGE,
                                       PrivateContent(conn_username[sock],
                                                      recipient)))>>
               /\ r.clients = tcp_clients

C12_Rejected(addr, username, seq_num) ==
    LET r == handle_udp_message(clients, AuthRequest(username, seq_num), addr)
        errors == {i \in DOMAIN r.out :
                     /\ r.out[i].data.obj.type = MSG_TYPE_AUTH_RESPONSE
                     /\ "error" \in DOMAIN r.out[i].data.obj.payload}
    IN /\ PlacesTo(r.out, addr) = DOMAIN r.out
       /\ IF seq_num = NoneInt THEN Acks(Datagrams(r.out)) = {}
          ELSE OneAckOf(Datagrams(r.out), seq_num)
       /\ Cardinality(errors) = 1
       /\ DOMAIN r.out = errors \cup Acks(Datagrams(r.out))
       /\ \A i \in errors :
            /\ r.out[i].data.obj.seq_num \in DOMAIN r.clients[addr].ack_pending
            /\ r.clients[addr].ack_pending[r.out[i].data.obj.seq_num] =
                 PendingEntry(r.out[i].data, 0)
       /\ Registered(r.clients) = Registered(clients)
       /\ UserList(r.clients) = UserList(clients)
       /\ \A a \in Registered(clients) : r.clients[a] = clients[a]

\* The usernames that registered sessions of the datagram server hold.
HeldNames == {clients[a].username : a \in Registered(clients)}

C12_DatagramDuplicate ==
    program = "udp_server" =>
      \A addr \in Addrs \ Registered(clients) : \A seq_num \in OptSeqNums :
        \A username \in HeldNames : C12_Rejected(addr, username, seq_num)

C12_DatagramEmpty ==
    program = "udp_server" =>
      \A addr \in Addrs \ Registered(clients) : \A seq_num \in OptSeqNums :
          C12_Rejected(addr, "", seq_num)

\* The handlers of the stream server that wait for the first record, the
\* peer still there.
Authenticating == {sock \in Socks : conn_pc[sock] = "auth" /\ sock \notin tcp_broken}

C12_Stream ==
    program = "tcp_server" =>
      \A sock \in Authenticating :
        \A username \in {""} \cup {tcp_clients[s] : s \in DOMAIN tcp_clients} :
          LET r == TcpAuthCheck(TcpState, sock, AuthResponse(username))
          IN /\ r.username = None
             /\ Len(r.st.out) = 1
             /\ r.st.out[1].to = sock
             /\ r.st.out[1].data.obj.type = MSG_TYPE_ERROR
             /\ r.st.clients = tcp_clients

\* C12: rejected registration.  A registration attempt whose username is
\* empty or held by a registered session is acknowledged (on the datagram
\* server, when it carried a seq) and answered with an error event, and the
\* registered sessions stay those of before: the peer is in the recipients
\* of no broadcast and its name in no user list.
C12_RejectedRegistration ==
    C12_DatagramDuplicate /\ C12_DatagramEmpty /\ C12_Stream

\* The names a peer may ask for.
C13_Names == Users \cup {"dave"}

\* The reliable data datagram with the event, under sequence number seq_num.
Event(content, original_type, seq_num) ==
    DataMsg(MSG_TYPE_UDP_DATA, UdpDataPayload(content, original_type), seq_num)

C13_Datagram ==
    program = "udp_server" =>
      \A addr \in Addrs : \A username \in C13_Names \ HeldNames :
        \A seq_num \in OptSeqNums :
          LET r == handle_udp_message(clients, AuthRequest(username, seq_num), addr)
              others == Registered(clients) \ {addr}
              own == [i \in 1..Cardinality(PlacesTo(r.out, addr)) |->
                        r.out[i].data]
              welcome == Event([text |-> <<"Welcome", username>>],
                               MSG_TYPE_SYSTEM, 0)
              user_list == Event([users |-> {username}
                                             \cup {clients[a].username : a \in others}],
                                 MSG_TYPE_USER_LIST, 1)
              joined == [username |-> username,
                         message |-> <<username, "has joined.">>]
          IN /\ r.clients[addr] =
                  ClientInfo(username, NextAfter(seq_num),
                             Put(Put(EmptyDict, 0, PendingEntry(welcome, 0)),
                                 1, PendingEntry(user_list, 0)),
                             2)
             /\ PlacesTo(r.out, addr) = DOMAIN own
             /\ own = IF seq_num = NoneInt THEN <<welcome, user_list>>
                      ELSE <<AckMsg([message |-> "Username registered successfully."],
                                    seq_num),
                             welcome, user_list>>
             /\ \A a \in Addrs \ {addr} :
                  IF a \in others
                  THEN \E i \in DOMAIN r.out :
                         /\ PlacesTo(r.out, a) = {i}
                         /\ Carries(r.out[i].data, joined, MSG_TYPE_USER_JOINED)
                         /\ r.clients[a] = AfterSend(clients[a], r.out[i].data)
                  ELSE /\ PlacesTo(r.out, a) = {}
                       /\ a \in DOMAIN clients => r.clients[a] = clients[a]

\* The handlers of the stream server whose username passed the test and is
\* still held by no socket of the registry, the peer still there.
Registering ==
    {sock \in Socks :
        /\ conn_pc[sock] = "checked"
        /\ sock \notin tcp_broken
        /\ \A s \in DOMAIN tcp_clients : tcp_clients[s] # conn_username[sock]}

C13_Stream ==
    program = "tcp_server" =>
      \A sock \in Registering :
          LET username == conn_username[sock]
              r == TcpRegistered(TcpState, sock, username)
              joined == TcpMsg(MSG_TYPE_USER_JOINED,
                               [username |-> username,
                                message |-> <<username, "has joined the chat!">>])
              own == {i \in PlacesTo(r.out, sock) :
                        r.out[i].data.obj.type # MSG_TYPE_USER_LEFT}
          IN /\ ~r.raised
             /\ sock \in DOMAIN r.clients /\ r.clients[sock] = username
             /\ \E i, j \in own :
                  /\ own = {i, j} /\ i < j
                  /\ r.out[i].data =
                       TcpMsg(MSG_TYPE_SYSTEM,
                              [message |-> <<"Welcome to the chat,", username>>])
                  /\ r.out[j].data.obj.type = MSG_TYPE_USER_LIST
                  /\ Range(r.out[j].data.obj.payload.users) =
                       {r.clients[s] : s \in DOMAIN r.clients}
             /\ \A s \in Socks \ {sock} :
                  Cardinality({i \in PlacesTo(r.out, s) : r.out[i].data = joined}) =
                    IF s \in Deliverable THEN 1 ELSE 0

\* C13: successful registration.  A registration attempt with a non-empty
\* username that no registered session holds creates the session under that
\* name with fresh link state; on the datagram server the attempt is
\* acknowledged when it carried a seq; the new session is sent the welcome
\* event and then the user list, which names it and every other registered
\* session; and the joined event is sent once to every other registered
\* session (on the stream server, every one whose peer is still there) and
\* not to the new session.  On the stream server the new session may also be
\* sent left events, for the sessions the joined event could not be sent to.
C13_SuccessfulRegistration == C13_Datagram /\ C13_Stream

\* C13: on the datagram server a peer registered while another was
\* registered: the joined event that names it is pending for the other, and
\* its own welcome and user list are pending.
C13_Witness ==
    /\ program = "udp_server"
    /\ \E addr, a \in Registered(clients) :
         /\ addr # a
         /\ DOMAIN clients[addr].ack_pending = {0, 1}
         /\ \E s \in DOMAIN clients[a].ack_pending :
              Carries(clients[a].ack_pending[s].data,
                      [username |-> clients[addr].username,
                       message |-> <<clients[addr].username, "has joined.">>],
                      MSG_TYPE_USER_JOINED)

\* The payloads of a leave notice: what the client sends on closing, and one
\* without a username.
C14_Payloads(username) ==
    {[username |-> username, reason |-> "User initiated disconnect"], EmptyDict}

\* C14: explicit leave on the datagram server.  A leave notice from a
\* registered peer takes the peer's entry, and with it its link state, out of
\* the registry; the only datagram sent to the leaving peer is the
\* acknowledgment of the notice's seq, when it carried one; every remaining
\* registered session is sent the left event that names the peer once, under
\* its next outbound sequence number and with a pending entry of retries 0;
\* and the rest of the registry is unchanged.
C14_ExplicitLeave ==
    program = "udp_server" =>
      \A addr \in Registered(clients) : \A seq_num \in OptSeqNums :
        \A payload \in C14_Payloads(clients[addr].username) :
          LET r == handle_udp_message(clients, Leaving(payload, seq_num), addr)
              username == clients[addr].username
              left == [username |-> username,
                       message |-> <<username, "has left the chat.">>]
          IN /\ addr \notin DOMAIN r.clients
             /\ DOMAIN r.clients = DOMAIN clients \ {addr}
             /\ IF seq_num = NoneInt THEN PlacesTo(r.out, addr) = {}
                ELSE \E i \in DOMAIN r.out :
                       /\ PlacesTo(r.out, addr) = {i}
                       /\ r.out[i].data.obj.type = MSG_TYPE_UDP_ACK
                       /\ r.out[i].data.obj.ack_num = seq_num
             /\ \A a \in Addrs \ {addr} :
                  IF a \in Registered(clients)
                  THEN \E i \in DOMAIN r.out :
                         /\ PlacesTo(r.out, a) = {i}
                         /\ Carries(r.out[i].data, left, MSG_TYPE_USER_LEFT)
                         /\ r.clients[a] = AfterSend(clients[a], r.out[i].data)
                  ELSE /\ PlacesTo(r.out, a) = {}
                       /\ a \in DOMAIN clients => r.clients[a] = clients[a]

\* C14: a registered session holds, pending, a left event: a registered
\* peer's leave notice was handled while that session was registered.
C14_Witness ==
    /\ program = "udp_server"
    /\ \E a \in Registered(clients) : \E s \in DOMAIN clients[a].ack_pending :
         LET data == clients[a].ack_pending[s].data
         IN /\ data.obj.type = MSG_TYPE_UDP_DATA
            /\ data.obj.payload.original_type = MSG_TYPE_USER_LEFT

\* The registered connections whose own thread is in remove_client.
Disconnecting ==
    {x \in DOMAIN tcp_clients : conn_pc[x] \in {"cleanup", "removing"}}

LeftRecord(username) ==
    TcpMsg(MSG_TYPE_USER_LEFT,
           [username |-> username, message |-> <<username, "has left the chat.">>])

\* remove_client(sock) in the current state, against the races of `lose`:
\* the session of sock is out of the registry, its socket is closed, and
\* every session that remains, with its peer there, was sent the left event
\* that names the username once for every session of that name that was
\* removed (the name is that of sock alone unless two sessions share it).
C15_Removal(sock, lose) ==
    LET r == remove_client(Against(lose), sock)
        username == tcp_clients[sock]
        gone == {x \in DOMAIN tcp_clients \ DOMAIN r.clients :
                    tcp_clients[x] = username}
    IN r.won = lose =>
         /\ sock \notin DOMAIN r.clients
         /\ sock \in r.closed
         /\ \A s \in DOMAIN r.clients :
              CanSend(r, s) =>
                Cardinality({i \in PlacesTo(r.out, s) :
                               r.out[i].data = LeftRecord(username)})
                  = Cardinality(gone)

\* The removal when no other thread is inside remove_client at that moment.
C15_Alone ==
    program = "tcp_server" => \A sock \in DOMAIN tcp_clients : C15_Removal(sock, {})

\* The removal when the connection's own thread and the thread of a failed
\* broadcast both call remove_client on it, the latter losing the race.
C15_Both ==
    program = "tcp_server" =>
      \A sock \in Disconnecting : C15_Removal(sock, {sock})

\* The removal by the connection's own thread, against every race that
\* thread may lose.
C15_Own ==
    program = "tcp_server" =>
      \A sock \in Disconnecting : \A lose \in Races(sock) : C15_Removal(sock, lose)

\* A session is removed once: the socket of a removed session is closed, a
\* closed socket is not in the registry and is past its registration, and a
\* thread that ended left no session behind.
C15_Once ==
    program = "tcp_server" =>
      \A sock \in Socks :
        /\ sock \in tcp_closed =>
             /\ sock \notin DOMAIN tcp_clients
             /\ conn_pc[sock] \in {"loop", "cleanup", "removing", "done"}
        /\ conn_pc[sock] = "done" => sock \notin DOMAIN tcp_clients
        /\ sock \in DOMAIN tcp_clients =>
             conn_pc[sock] \in {"checked", "loop", "cleanup", "removing"}

\* C15: stream disconnect.  When the read of a registered connection returned
\* empty or failed, the removal of its session takes it out of the registry,
\* closes its socket and sends the left event that names its username once
\* to every remaining registered session, whichever threads call
\* remove_client on it and on the other connections at that moment, and no
\* session is removed twice.
C15_StreamDisconnect == C15_Alone /\ C15_Both /\ C15_Own /\ C15_Once

\* The sequence number a datagram carries, or NoneInt.
SeqOf(data) == IF data.kind = "json" THEN Get(data.obj, "seq_num", NoneInt) ELSE NoneInt

\* The datagrams of `sent`, in order, that were sent with a sequence number.
Reliable(sent) == SelectSeq(sent, LAMBDA data : SeqOf(data) # NoneInt)

\* The datagrams of `out` (Sent records) that went to address, in order.
DataTo(out, address) ==
    LET to == SelectSeq(out, LAMBDA e : e.to = address)
    IN [i \in DOMAIN to |-> to[i].data]

\* One handler call on a link: the reliable sends `sent` took the numbers
\* start, start + 1, ... in order, the counter ended right after them, and
\* each has its pending entry with retry count 0 under its own number.
Numbered(sent, start, counter, pending) ==
    /\ counter = start + Len(sent)
    /\ \A i \in DOMAIN sent :
         /\ SeqOf(sent[i]) = start + i - 1
         /\ start + i - 1 \in DOMAIN pending
         /\ pending[start + i - 1] = PendingEntry(sent[i], 0)

\* The keys of a pending table are below the counter of its link.
KeysBelow(pending, counter) == \A k \in DOMAIN pending : k < counter

C16_ServerKeys ==
    program = "udp_server" =>
      \A a \in DOMAIN clients :
        /\ KeysBelow(clients[a].ack_pending, clients[a].server_to_client_seq_num)
        /\ \A k \in DOMAIN clients[a].ack_pending :
             SeqOf(clients[a].ack_pending[k].data) = k

C16_ClientKeys ==
    program = "udp_client" =>
      /\ KeysBelow(ack_pending_on_server, client_seq_num)
      /\ \A k \in DOMAIN ack_pending_on_server :
           SeqOf(ack_pending_on_server[k].data) = k

\* The link state of a is new after the call: a had none, or the call
\* replaced it.
NewLink(r, a) == a \notin DOMAIN clients \/ a \in r.dropped

\* The datagrams from addr that make the server send: a registration under
\* each name, a leave notice, an acknowledgment, and every chat payload
\* under the sequence number the server expects from addr.
C16_ToServer(addr) ==
    {AuthRequest(u, 0) : u \in Users}
      \cup {Leaving(EmptyDict, NoneInt), AckMsg(EmptyDict, 0)}
      \cup {DataMsg(MSG_TYPE_UDP_DATA, p,
                    IF addr \in DOMAIN clients
                    THEN clients[addr].next_expected_seq_num ELSE 0) :
              p \in ChatPayloads}

C16_ServerSends ==
    program = "udp_server" =>
      \A addr \in Addrs : \A data \in C16_ToServer(addr) :
        LET r == handle_udp_message(clients, data, addr)
        IN \A a \in Addrs :
             LET sent == Reliable(DataTo(r.out, a))
             IN IF a \in DOMAIN r.clients
                THEN /\ Numbered(sent,
                                 IF NewLink(r, a) THEN 0
                                 ELSE clients[a].server_to_client_seq_num,
                                 r.clients[a].server_to_client_seq_num,
                                 r.clients[a].ack_pending)
                     /\ ~NewLink(r, a) =>
                          \A k \in DOMAIN r.clients[a].ack_pending :
                            k < clients[a].server_to_client_seq_num =>
                              /\ k \in DOMAIN clients[a].ack_pending
                              /\ r.clients[a].ack_pending[k] = clients[a].ack_pending[k]
                ELSE sent = <<>>

\* The texts the user may enter.
C16_Texts == {<<"hi">>, <<"/msg", "bob", "yo">>, <<"/quit">>, <<>>}

C16_ClientSends ==
    program = "udp_client" /\ client_pc = "running" =>
      /\ \A message_text \in C16_Texts :
           LET c == gui_send_udp_message(ClientGlobals, message_text)
           IN stop_event \/ message_text = <<>> \/
                /\ Len(Reliable(c.out)) = 1
                /\ Numbered(Reliable(c.out), client_seq_num, c.client_seq_num,
                            c.ack_pending_on_server)
                /\ \A k \in DOMAIN ack_pending_on_server :
                     /\ k \in DOMAIN c.ack_pending_on_server
                     /\ c.ack_pending_on_server[k] = ack_pending_on_server[k]
      /\ \A message_text \in C16_Texts :
           LET c == gui_send_udp_message(ClientGlobals, message_text)
           IN stop_event \/ message_text = <<>> =>
                /\ Reliable(c.out) = <<>>
                /\ c.client_seq_num = client_seq_num
                /\ c.ack_pending_on_server = ack_pending_on_server

\* C16: outbound sequence numbering.  On the link from the server to one
\* client and on the link from the client to the server, the reliable sends
\* of one call take the link's counter, counter + 1, ... in order (from 0 on
\* a link state the call created), the counter ends right after them, each
\* send leaves a pending entry with retry count 0 under its own number and
\* no older pending entry is replaced; and in every state each key of a
\* pending table is below the counter of its link and is the number of the
\* datagram stored under it.
C16_OutboundNumbering ==
    /\ C16_ServerKeys
    /\ C16_ClientKeys
    /\ C16_ServerSends
    /\ C16_ClientSends

\* C16: the server issued 0, 1 and 2 on one link and the last is pending
\* with retry count 0; or the client did so on its link.
C16_Witness ==
    \/ /\ program = "udp_server"
       /\ \E a \in DOMAIN clients :
            /\ clients[a].server_to_client_seq_num = 3
            /\ 2 \in DOMAIN clients[a].ack_pending
            /\ clients[a].ack_pending[2].retries = 0
    \/ /\ program = "udp_client"
       /\ client_seq_num = 3
       /\ 2 \in DOMAIN ack_pending_on_server
       /\ ack_pending_on_server[2].retries = 0

\* The acknowledgment datagrams that may arrive: with and without an
\* ack_num, and with a seq_num of their own.
C17_Acks ==
    {create_message(MSG_TYPE_UDP_ACK, EmptyDict, s, a, None, None) :
       s \in OptSeqNums, a \in OptSeqNums}

IsAck(data) == data.kind = "json" /\ data.obj.type = MSG_TYPE_UDP_ACK

NoAckIn(pending) == \A k \in DOMAIN pending : ~IsAck(pending[k].data)

\* The server, on an acknowledgment from any address, hands nothing to
\* sendto and adds nothing to a pending table.
C17_ServerSilent ==
    program = "udp_server" =>
      \A addr \in Addrs : \A data \in C17_Acks :
        LET r == handle_udp_message(clients, data, addr)
        IN /\ r.out = <<>>
           /\ DOMAIN r.clients = DOMAIN clients
           /\ \A a \in DOMAIN clients :
                DOMAIN r.clients[a].ack_pending \subseteq DOMAIN clients[a].ack_pending

\* The client, on an acknowledgment, hands nothing to sendto and adds
\* nothing to its pending table.
C17_ClientSilent ==
    program = "udp_client" =>
      \A data \in C17_Acks :
        LET c == receive_udp_messages(ClientGlobals, data)
        IN /\ c.out = <<>>
           /\ DOMAIN c.ack_pending_on_server \subseteq DOMAIN ack_pending_on_server
           /\ c.client_seq_num = client_seq_num

\* No pending table, and no snapshot of one that a scheduler walks and
\* retransmits from, holds an acknowledgment.
C17_NeverPending ==
    /\ \A a \in DOMAIN clients : NoAckIn(clients[a].ack_pending)
    /\ ~IsLive(sched_cur) => NoAckIn(sched_cur.orphan.ack_pending)
    /\ NoAckIn(ack_pending_on_server)
    /\ \A i \in DOMAIN sched_entries : ~IsAck(sched_entries[i].data)
    /\ \A i \in DOMAIN csched_entries : ~IsAck(csched_entries[i].data)

\* C17: acknowledgments are never acknowledged.  Receiving an
\* acknowledgment datagram makes neither the server nor the client transmit
\* anything, and no acknowledgment is ever in a pending table or among the
\* entries a scheduler retransmits.
C17_AcksNeverAcked == C17_ServerSilent /\ C17_ClientSilent /\ C17_NeverPending

\* C17: an acknowledgment was received and retired the datagram it names:
\* on the server the user list (1) of a registered peer while the welcome
\* (0) is pending; on the client a chat datagram (1) while a later one is
\* pending.
C17_Witness ==
    \/ /\ program = "udp_server"
       /\ \E a \in Registered(clients) :
            /\ clients[a].server_to_client_seq_num >= 2
            /\ 1 \notin DOMAIN clients[a].ack_pending
            /\ 0 \in DOMAIN clients[a].ack_pending
    \/ /\ program = "udp_client"
       /\ client_seq_num >= 3
       /\ 1 \notin DOMAIN ack_pending_on_server
       /\ 2 \in DOMAIN ack_pending_on_server

\* The first records that are not an answer to the registration request:
\* undecodable bytes, and records of another type, chat texts among them.
C18_NotAnAnswer ==
    {data \in AnyToStream :
        /\ data.kind # "empty"
        /\ parse_message(data) = NoneObj
             \/ parse_message(data).type # MSG_TYPE_AUTH_RESPONSE}

\* The first record of a connection, whatever it is, reaches no other
\* connection and leaves the registry as it is; one that is not an answer to
\* the registration request ends the connection, with one ERROR record to
\* the peer.
C18_FirstRecord ==
    program = "tcp_server" =>
      \A sock \in Authenticating : \A data \in AnyToStream :
        LET r == TcpAuthCheck(TcpState, sock, data)
        IN /\ r.st.clients = tcp_clients /\ r.st.order = tcp_order
           /\ r.st.closed = tcp_closed
           /\ PlacesTo(r.st.out, sock) = DOMAIN r.st.out
           /\ data \in C18_NotAnAnswer =>
                /\ r.username = None
                /\ Len(r.st.out) = 1
                /\ r.st.out[1].data = TcpMsg(MSG_TYPE_ERROR,
                                             [error |-> "Authentication failed."])

\* A connection whose records are processed as chat has a non-empty
\* username, under which it is registered unless its session was removed.
C18_Named ==
    program = "tcp_server" =>
      \A sock \in Socks :
        /\ conn_pc[sock] \in {"checked", "loop"} => conn_username[sock] \notin {None, ""}
        /\ conn_pc[sock] = "loop" =>
             \/ sock \in DOMAIN tcp_clients /\ tcp_clients[sock] = conn_username[sock]
             \/ sock \in tcp_closed
        /\ conn_pc[sock] \in {"none", "auth", "checked"} => sock \notin DOMAIN tcp_clients

\* The loop that processes chat texts is entered only by the registration,
\* the registration only by an answer whose username is not empty and is
\* held by no session at that moment, and a connection that ended processes
\* nothing more.
C18_Order ==
    \A sock \in Socks :
      /\ conn_pc'[sock] = "loop" => conn_pc[sock] \in {"checked", "loop"}
      /\ conn_pc'[sock] = "checked" /\ conn_pc[sock] # "checked" =>
           /\ conn_pc[sock] = "auth"
           /\ conn_username'[sock] \notin {None, ""}
           /\ \A s \in DOMAIN tcp_clients : tcp_clients[s] # conn_username'[sock]
      /\ conn_pc[sock] \in {"cleanup", "removing", "done"} =>
           conn_pc'[sock] \in {"cleanup", "removing", "done"}
      /\ conn_pc[sock] \in {"none", "auth"} => sock \notin DOMAIN tcp_clients'

Rejected(cs) == {a \in DOMAIN cs : cs[a].username = None}

\* The scheduler abandons, in this step, a pending datagram of the rejected
\* peer a: it is at work on the entry of a that the registry holds, and a
\* key leaves the pending table of that entry.  (No other step removes a key
\* there: an acknowledgment from a peer without a username is ignored.)
C19_Abandons(a) ==
    /\ program = "udp_server"
    /\ sched_pc = "entries"
    /\ sched_cur = LiveRef(a)
    /\ a \in Rejected(clients)
    /\ a \in DOMAIN clients'
    /\ DOMAIN clients[a].ack_pending \ DOMAIN clients'[a].ack_pending # {}

\* Every datagram pending for a rejected peer is an error event of the
\* registration.
C19_OnlyErrors ==
    program = "udp_server" =>
      \A a \in Rejected(clients) : \A k \in DOMAIN clients[a].ack_pending :
        LET obj == clients[a].ack_pending[k].data.obj
        IN obj.type = MSG_TYPE_AUTH_RESPONSE /\ "error" \in DOMAIN obj.payload

\* The scheduler's next step after the abandoning removes the entry.
C19_Removes ==
    program = "udp_server" /\ sched_pc = "del_client" /\ sched_pc' # "del_client"
      => sched_cur.addr \notin DOMAIN clients'

\* The abandoning of the last datagram sent on the link of a rejected peer
\* is followed by the removal of the peer's entry.
C19_LastAbandoned ==
    [][/\ \A a \in Addrs :
            C19_Abandons(a)
              /\ DOMAIN clients[a].ack_pending \ DOMAIN clients'[a].ack_pending
                   = {clients[a].server_to_client_seq_num - 1}
              => sched_pc' = "del_client" /\ sched_cur' = LiveRef(a)
       /\ C19_Removes]_vars

\* C19: abandoned rejection.  When the scheduler abandons an error event
\* that is pending for a rejected peer that is still unregistered, its next
\* step removes the peer's entry from the registry.
C19_AbandonedRejection ==
    /\ []C19_OnlyErrors
    /\ [][/\ \A a \in Addrs :
               C19_Abandons(a) => sched_pc' = "del_client" /\ sched_cur' = LiveRef(a)
          /\ C19_Removes]_vars

\* An error event was abandoned and the rejected peer's entry is about to be
\* removed.
C19_Reached ==
    /\ program = "udp_server"
    /\ sched_pc = "del_client"
    /\ IsLive(sched_cur)
    /\ sched_cur.addr \in Rejected(clients)

\* A scheduler thread ends by an exception only on an entry whose retries
\* are used up and that the receive path removed from the pending table
\* since the snapshot: never on a link that was added or removed.
C20_OnlyRemovedEntry ==
    [][/\ sched_pc' = "crashed" /\ sched_pc # "crashed" =>
            C4_Crash(sched_entries, Deref(clients, sched_cur).ack_pending)
       /\ csched_pc' = "crashed" /\ csched_pc # "crashed" =>
            C4_Crash(csched_entries, ack_pending_on_server)]_vars

\* C20: scheduler tolerance of concurrent mutation.  Whatever the receive
\* path does during a scan cycle (it removes a pending entry on an
\* acknowledgment, adds a link on a registration, removes one on a leave),
\* the retransmission scheduler of the server and that of the client raise
\* nothing and keep running.
C20_SchedulerTolerance ==
    /\ program = "udp_server" => sched_pc # "crashed"
    /\ program = "udp_client" => csched_pc # "crashed"

\* The sequence numbers that the link of the pending table `pending` and
\* counter `counter` issued and that are no longer pending: an
\* acknowledgment or the abandoning removed them.
Retired(pending, counter) == (0..(counter - 1)) \ DOMAIN pending

\* A step of a scheduler (a timeout expired) leaves retired what was
\* retired: on every link of the server that the step keeps, and on the
\* client's link.
C21_StaysRetired ==
    timeouts' # timeouts =>
      /\ program = "udp_server" =>
           \A a \in DOMAIN clients \cap DOMAIN clients' :
             Retired(clients[a].ack_pending, clients[a].server_to_client_seq_num)
               \cap DOMAIN clients'[a].ack_pending = {}
      /\ program = "udp_client" =>
           Retired(ack_pending_on_server, client_seq_num)
             \cap DOMAIN ack_pending_on_server' = {}

\* C21: atomic ack-removal.  Once an acknowledgment has removed the pending
\* entry of sequence number s from a link's pending table, no step of the
\* retransmission scheduler, however it interleaves with the receive path,
\* puts an entry for s back into that table.
C21_AtomicAckRemoval == [][C21_StaysRetired]_vars

\* The sessions of the stream server to which a send fails.
Unreachable == DOMAIN tcp_clients \ Deliverable

\* The session of sock is, in st, as it is now: registered under the same
\* username and the socket not closed.
C22_Kept(st, sock) ==
    /\ sock \in DOMAIN st.clients
    /\ st.clients[sock] = tcp_clients[sock]
    /\ (sock \in st.closed) = (sock \in tcp_closed)

\* A failed send of a private message leaves the recipient's session as it
\* is.
C22_Unicast ==
    program = "tcp_server" =>
      \A sock \in Serving : \A to \in Unreachable \ {sock} :
        LET r == TcpHandleRecord(
                     TcpState, sock, conn_username[sock],
                     TextRecord(<<"/msg", tcp_clients[to], "yo">>, "m1", "t1"))
        IN \A x \in Unreachable : C22_Kept(r, x)

\* A failed send of a broadcast leaves the recipient's session as it is.
C22_Broadcast ==
    program = "tcp_server" =>
      \A sender_socket \in Socks \cup {NoSock} : \A message \in C7_Records :
        LET r == broadcast_message(TcpState, message, sender_socket)
        IN \A x \in Unreachable \ {sender_socket} : C22_Kept(r, x)

\* C22: a transient send failure does not tear down a link.  When a send to
\* a registered peer fails, in a unicast or in a broadcast, that peer's
\* session stays registered with its state unchanged.
C22_SendFailureKeepsLink == C22_Unicast /\ C22_Broadcast

(***************************************************************************)
(* protocol.py on its own, down to the text on the wire.  A Python value   *)
(* is a record tagged with its type; a dict keeps its items in insertion   *)
(* order, which is the order json.dumps writes them in.  A finite float is *)
(* held in tenths, so that 1.5 is 15 and 1.0 is 10.  A JSON text is the    *)
(* sequence of its tokens, a buffer is the UTF-8 encoding of a text or a   *)
(* byte string that is no UTF-8.                                           *)
(***************************************************************************)
PyNone == [t |-> "NoneType"]

PyStr(s) == [t |-> "str", s |-> s]

PyInt(n) == [t |-> "int", n |-> n]

PyBool(b) == [t |-> "bool", b |-> b]

PyFloat(tenths) == [t |-> "float", tenths |-> tenths]

PyNaN == [t |-> "float", nan |-> TRUE]

PyDict(items) == [t |-> "dict", items |-> items]

PyList(items) == [t |-> "list", items |-> items]

\* A value json.dumps has no encoding for (a set, a socket, ...).
PyObject == [t |-> "object"]

\* isinstance(v, int) holds of a bool too.
IsInt(v) == v.t \in {"int", "bool"}

IsNumber(v) == v.t \in {"int", "bool", "float"}

Tenths(v) ==
    CASE v.t = "int" -> 10 * v.n
      [] v.t = "bool" -> IF v.b THEN 10 ELSE 0
      [] v.t = "float" -> v.tenths

\* Python's a == b for two objects that are not the same object: numbers
\* compare by value across int, bool and float, NaN equals nothing, dicts
\* compare as sets of items and lists item by item.
RECURSIVE PyEq(_, _)
PyEq(a, b) ==
    IF a = PyNaN \/ b = PyNaN THEN FALSE
    ELSE IF IsNumber(a) /\ IsNumber(b) THEN Tenths(a) = Tenths(b)
    ELSE IF a.t # b.t THEN FALSE
    ELSE CASE a.t = "dict" ->
                /\ Len(a.items) = Len(b.items)
                /\ \A i \in DOMAIN a.items : \E j \in DOMAIN b.items :
                       /\ PyEq(a.items[i][1], b.items[j][1])
                       /\ PyEq(a.items[i][2], b.items[j][2])
           [] a.t = "list" ->
                /\ Len(a.items) = Len(b.items)
                /\ \A i \in DOMAIN a.items : PyEq(a.items[i], b.items[i])
           [] OTHER -> a = b

\* d[key] = value: the value of an equal key is replaced in place, a new key
\* goes last.
SetItem(items, key, value) ==
    IF \E i \in DOMAIN items : PyEq(items[i][1], key)
    THEN [i \in DOMAIN items |->
            IF PyEq(items[i][1], key) THEN <<items[i][1], value>> ELSE items[i]]
    ELSE Append(items, <<key, value>>)

\* key in d, and d[key] for a key that is in d.
HasKey(d, key) == \E i \in DOMAIN d.items : PyEq(d.items[i][1], PyStr(key))

GetItem(d, key) ==
    d.items[CHOOSE i \in DOMAIN d.items : PyEq(d.items[i][1], PyStr(key))][2]

\* The tokens of a JSON text.  A number literal has a fraction digit or none.
Tok(tok) == [tok |-> tok]

StringTok(s) == [tok |-> "string", s |-> s]

NumberTok(int, frac) == [tok |-> "number", int |-> int, frac |-> frac]

\* str(n) of the integers the model has.
IntText(n) == CASE n = 0 -> "0" [] n = 1 -> "1" [] n = 2 -> "2" [] n = 3 -> "3"

\* json.dumps writes a key that is no str as the text of its value.
KeyText(key) ==
    CASE key.t = "str" -> key.s
      [] key.t = "int" -> IntText(key.n)
      [] key.t = "bool" -> IF key.b THEN "true" ELSE "false"
      [] key.t = "NoneType" -> "null"

\* Whether json.dumps(v) returns rather than raises TypeError.
RECURSIVE Serializable(_)
Serializable(v) ==
    CASE v.t = "dict" ->
            \A i \in DOMAIN v.items :
                /\ v.items[i][1].t \in {"str", "int", "bool", "NoneType"}
                /\ Serializable(v.items[i][2])
      [] v.t = "list" -> \A i \in DOMAIN v.items : Serializable(v.items[i])
      [] v.t = "object" -> FALSE
      [] OTHER -> TRUE

\* The text json.dumps(v) returns for such a value.
RECURSIVE Text(_), ItemsText(_, _), ElementsText(_, _)
Text(v) ==
    CASE v.t = "str" -> <<StringTok(v.s)>>
      [] v.t = "int" -> <<NumberTok(v.n, NoneInt)>>
      [] v.t = "bool" -> <<Tok(IF v.b THEN "true" ELSE "false")>>
      [] v.t = "NoneType" -> <<Tok("null")>>
      [] v.t = "float" ->
            IF v = PyNaN THEN <<Tok("NaN")>>
            ELSE <<NumberTok(v.tenths \div 10, v.tenths % 10)>>
      [] v.t = "dict" -> <<Tok("{")>> \o ItemsText(v.items, 1) \o <<Tok("}")>>
      [] v.t = "list" -> <<Tok("[")>> \o ElementsText(v.items, 1) \o <<Tok("]")>>

ItemsText(items, i) ==
    IF i > Len(items) THEN <<>>
    ELSE (IF i > 1 THEN <<Tok(",")>> ELSE <<>>)
         \o <<StringTok(KeyText(items[i][1])), Tok(":")>>
         \o Text(items[i][2]) \o ItemsText(items, i + 1)

ElementsText(items, i) ==
    IF i > Len(items) THEN <<>>
    ELSE (IF i > 1 THEN <<Tok(",")>> ELSE <<>>)
         \o Text(items[i]) \o ElementsText(items, i + 1)

json_dumps(v) ==
    IF Serializable(v) THEN [raised |-> FALSE, text |-> Text(v)]
    ELSE [raised |-> TRUE]

\* json.loads: one value, read from the left, and nothing after it.
NoValue == [ok |-> FALSE]

Value(value, rest) == [ok |-> TRUE, value |-> value, rest |-> rest]

RECURSIVE ParseValue(_), ParseMembers(_, _), ParseElements(_, _)
ParseValue(text) ==
    IF text = <<>> THEN NoValue
    ELSE LET head == Head(text)
             rest == Tail(text)
         IN CASE head.tok = "string" -> Value(PyStr(head.s), rest)
              [] head.tok = "number" ->
                    IF head.frac = NoneInt THEN Value(PyInt(head.int), rest)
                    ELSE Value(PyFloat(10 * head.int + head.frac), rest)
              [] head.tok = "true" -> Value(PyBool(TRUE), rest)
              [] head.tok = "false" -> Value(PyBool(FALSE), rest)
              [] head.tok = "null" -> Value(PyNone, rest)
              [] head.tok = "NaN" -> Value(PyNaN, rest)
              [] head.tok = "{" ->
                    IF rest # <<>> /\ Head(rest).tok = "}"
                    THEN Value(PyDict(<<>>), Tail(rest))
                    ELSE ParseMembers(rest, <<>>)
              [] head.tok = "[" ->
                    IF rest # <<>> /\ Head(rest).tok = "]"
                    THEN Value(PyList(<<>>), Tail(rest))
                    ELSE ParseElements(rest, <<>>)
              [] OTHER -> NoValue

ParseMembers(text, items) ==
    IF Len(text) < 2 THEN NoValue
    ELSE IF text[1].tok # "string" \/ text[2].tok # ":" THEN NoValue
    ELSE LET v == ParseValue(SubSeq(text, 3, Len(text)))
         IN IF ~v.ok THEN NoValue
            ELSE IF v.rest = <<>> THEN NoValue
            ELSE LET now == SetItem(items, PyStr(text[1].s), v.value)
                 IN CASE Head(v.rest).tok = "}" -> Value(PyDict(now), Tail(v.rest))
                      [] Head(v.rest).tok = "," -> ParseMembers(Tail(v.rest), now)
                      [] OTHER -> NoValue

ParseElements(text, items) ==
    LET v == ParseValue(text)
    IN IF ~v.ok THEN NoValue
       ELSE IF v.rest = <<>> THEN NoValue
       ELSE LET now == Append(items, v.value)
            IN CASE Head(v.rest).tok = "]" -> Value(PyList(now), Tail(v.rest))
                 [] Head(v.rest).tok = "," -> ParseElements(Tail(v.rest), now)
                 [] OTHER -> NoValue

json_loads(text) ==
    LET v == ParseValue(text)
    IN IF v.ok /\ v.rest = <<>> THEN [raised |-> FALSE, value |-> v.value]
       ELSE [raised |-> TRUE]

\* str.encode('utf-8') and bytes.decode('utf-8').
Utf8(text) == [utf8 |-> TRUE, text |-> text]

NotUtf8 == [utf8 |-> FALSE]

EmptyBytes == Utf8(<<>>)

\* protocol.py:28-89.  The call raises TypeError or returns a buffer.
Raised == [raised |-> TRUE]

Returned(value) == [raised |-> FALSE, value |-> value]

ErrorBytes ==
    Utf8(Text(PyDict(<<
        <<PyStr("type"), PyStr(MSG_TYPE_ERROR)>>,
        <<PyStr("payload"),
          PyDict(<< <<PyStr("error"),
                      PyStr("Failed to serialize message payload")>> >>)>> >>)))

AlwaysField(items, key, value) == SetItem(items, PyStr(key), value)

\* message[key] = value when value is not None.
WithField(items, key, value) ==
    IF value = PyNone THEN items ELSE SetItem(items, PyStr(key), value)

create_message_bytes(msg_type, payload, seq_num, ack_num, message_id, send_timestamp) ==
    IF msg_type.t # "str" THEN Raised
    ELSE IF payload.t # "dict" THEN Raised
    ELSE IF seq_num # PyNone /\ ~IsInt(seq_num) THEN Raised
    ELSE IF ack_num # PyNone /\ ~IsInt(ack_num) THEN Raised
    ELSE IF message_id # PyNone /\ message_id.t # "str" THEN Raised
    ELSE IF send_timestamp # PyNone /\ send_timestamp.t # "float" THEN Raised
    ELSE LET message ==
                 PyDict(WithField(WithField(WithField(WithField(
                     << <<PyStr("type"), msg_type>>, <<PyStr("payload"), payload>> >>,
                     "seq_num", seq_num), "ack_num", ack_num),
                     "message_id", message_id), "send_timestamp", send_timestamp))
             dumped == json_dumps(message)
         IN IF dumped.raised THEN Returned(ErrorBytes)
            ELSE Returned(Utf8(dumped.text))

\* `sub in s` for two strings of the model.
Substring(sub, s) == sub = s \/ (s = "type payload" /\ sub \in {"type", "payload"})

\* `key in message`: a key of a dict, an item of a list, a part of a str, and
\* TypeError for a value that is no container.
Contains(message, key) ==
    CASE message.t = "dict" -> Returned(HasKey(message, key))
      [] message.t = "list" ->
            Returned(\E i \in DOMAIN message.items : PyEq(message.items[i], PyStr(key)))
      [] message.t = "str" -> Returned(Substring(key, message.s))
      [] OTHER -> Raised

\* protocol.py:92-130.  Every exception is caught and turned into None.
parse_message_bytes(data) ==
    IF data = EmptyBytes THEN Returned(PyNone)
    ELSE IF ~data.utf8 THEN Returned(PyNone)
    ELSE LET loaded == json_loads(data.text)
         IN IF loaded.raised THEN Returned(PyNone)
            ELSE LET message == loaded.value
                     has_type == Contains(message, "type")
                     has_payload == Contains(message, "payload")
                 IN IF has_type.raised THEN Returned(PyNone)
                    ELSE IF ~has_type.value THEN Returned(PyNone)
                    ELSE IF has_payload.raised THEN Returned(PyNone)
                    ELSE IF has_payload.value THEN Returned(message)
                    ELSE Returned(PyNone)

\* What the codec is called with: the arguments the programs pass, and
\* beside them a value of every other kind, so that each branch is taken.
CodecTypes == {PyStr(MSG_TYPE_MESSAGE), PyStr(""), PyInt(1)}

CodecPayloads ==
    { PyDict(<<>>),
      PyDict(<< <<PyStr("message"), PyStr("hi")>> >>),
      PyDict(<< <<PyStr("count"), PyInt(2)>>, <<PyStr("ratio"), PyFloat(15)>>,
                <<PyStr("whole"), PyFloat(10)>> >>),
      PyDict(<< <<PyStr("flag"), PyBool(TRUE)>>,
                <<PyStr("inner"),
                  PyDict(<< <<PyStr("username"), PyStr("alice")>>,
                            <<PyStr("deep"), PyDict(<< <<PyStr("n"), PyInt(0)>> >>)>> >>)>> >>),
      PyDict(<< <<PyStr("type"), PyStr("payload")>>, <<PyStr("payload"), PyBool(FALSE)>> >>),
      PyDict(<< <<PyStr("users"), PyList(<<PyStr("alice"), PyStr("bob")>>)>> >>),
      PyDict(<< <<PyStr("ratio"), PyNaN>> >>),
      PyDict(<< <<PyInt(1), PyStr("one")>> >>),
      PyDict(<< <<PyStr("socket"), PyObject>> >>),
      PyStr("hi"),
      PyNone }

CodecSeqNums == {PyNone, PyInt(0), PyInt(3), PyBool(TRUE), PyStr("1")}

CodecAckNums == {PyNone, PyInt(1), PyFloat(10)}

CodecMessageIds == {PyNone, PyStr("m1"), PyInt(1)}

CodecTimestamps == {PyNone, PyFloat(15), PyInt(1), PyNaN}

\* The buffers the network may hand to parse_message beside the ones
\* create_message made: no bytes, no UTF-8, no JSON (cut short, or with text
\* after the value), and JSON texts of every kind of value.
CodecBuffers ==
    {EmptyBytes, NotUtf8,
     Utf8(<<Tok("{")>>),
     Utf8(<<Tok("{"), StringTok("type"), Tok(":"), StringTok("x"), Tok(",")>>),
     Utf8(<<Tok("["), StringTok("type")>>),
     Utf8(<<StringTok("type"), StringTok("payload")>>),
     Utf8(<<Tok("}")>>)}
    \cup {Utf8(Text(v)) : v \in
            {PyNone, PyInt(5), PyFloat(15), PyBool(TRUE), PyNaN,
             PyStr("hello"), PyStr("type"), PyStr("type payload"),
             PyList(<<>>), PyList(<<PyStr("type")>>),
             PyList(<<PyStr("type"), PyStr("payload")>>),
             PyList(<<PyStr("payload"), PyInt(1), PyStr("type")>>),
             PyDict(<<>>),
             PyDict(<< <<PyStr("type"), PyStr("x")>> >>),
             PyDict(<< <<PyStr("payload"), PyDict(<<>>)>> >>),
             PyDict(<< <<PyStr("type"), PyInt(1)>>, <<PyStr("payload"), PyNone>> >>),
             PyDict(<< <<PyStr("payload"), PyDict(<<>>)>>, <<PyStr("type"), PyStr("x")>>,
                       <<PyStr("seq_num"), PyStr("0")>> >>)}}

\* One call of create_message.  A behaviour follows one buffer, from where
\* it is made to what parse_message returns for it.
CodecCreate(msg_type, payload, seq_num, ack_num, message_id, send_timestamp) ==
    /\ program = "codec"
    /\ codec_call = <<>>
    /\ codec_data = <<>>
    /\ LET r == create_message_bytes(msg_type, payload, seq_num, ack_num,
                                     message_id, send_timestamp)
       IN /\ codec_call' = <<[msg_type |-> msg_type, payload |-> payload,
                              seq_num |-> seq_num, ack_num |-> ack_num,
                              message_id |-> message_id,
                              send_timestamp |-> send_timestamp,
                              raised |-> r.raised]>>
          /\ codec_data' = IF r.raised THEN <<>> ELSE <<r.value>>
          /\ codec_message' = <<>>
    /\ UNCHANGED <<serverVars, clientVars, tcpVars, netVars, modeVars,
                   streamClientVars>>

\* A buffer comes from the network instead.
CodecArrive(data) ==
    /\ program = "codec"
    /\ codec_call = <<>>
    /\ codec_data = <<>>
    /\ codec_call' = <<>>
    /\ codec_data' = <<data>>
    /\ codec_message' = <<>>
    /\ UNCHANGED <<serverVars, clientVars, tcpVars, netVars, modeVars,
                   streamClientVars>>

\* One call of parse_message, on the buffer there is.
CodecParse ==
    /\ program = "codec"
    /\ codec_data # <<>>
    /\ codec_message = <<>>
    /\ codec_message' = <<parse_message_bytes(codec_data[1])>>
    /\ UNCHANGED <<codec_call, codec_data>>
    /\ UNCHANGED <<serverVars, clientVars, tcpVars, netVars, modeVars,
                   streamClientVars>>

InitCodec ==
    /\ InitPrograms
    /\ program = "codec"
    /\ timed = FALSE

NextCodec ==
    \/ \E msg_type \in CodecTypes : \E payload \in CodecPayloads :
       \E seq_num \in CodecSeqNums : \E ack_num \in CodecAckNums :
       \E message_id \in CodecMessageIds : \E send_timestamp \in CodecTimestamps :
           CodecCreate(msg_type, payload, seq_num, ack_num, message_id, send_timestamp)
    \/ \E data \in CodecBuffers : CodecArrive(data)
    \/ CodecParse

SpecCodec == InitCodec /\ [][NextCodec]_vars

\* The payload values C23 speaks of: strings, numbers, booleans and maps of
\* such values under string keys.  NaN is a float that is no number.
RECURSIVE C23_Plain(_)
C23_Plain(v) ==
    CASE v.t \in {"str", "int", "bool"} -> TRUE
      [] v.t = "float" -> v # PyNaN
      [] v.t = "dict" ->
            \A i \in DOMAIN v.items :
                v.items[i][1].t = "str" /\ C23_Plain(v.items[i][2])
      [] OTHER -> FALSE

\* A call with a type string, such a payload map, and each optional field
\* left out or supplied with a value of its kind.
C23_Valid(call) ==
    /\ call.msg_type.t = "str"
    /\ call.payload.t = "dict" /\ C23_Plain(call.payload)
    /\ call.seq_num = PyNone \/ IsInt(call.seq_num)
    /\ call.ack_num = PyNone \/ IsInt(call.ack_num)
    /\ call.message_id = PyNone \/ call.message_id.t = "str"
    /\ call.send_timestamp = PyNone
         \/ (call.send_timestamp.t = "float" /\ call.send_timestamp # PyNaN)

\* The record has the field with an equal value of the same kind, or has no
\* such field when none was supplied.
C23_Field(message, key, value) ==
    IF value = PyNone THEN ~HasKey(message, key)
    ELSE /\ HasKey(message, key)
         /\ PyEq(GetItem(message, key), value)
         /\ GetItem(message, key) = value

\* C23: parse_message(create_message(type, payload, ...)), for a type string
\* and a payload map of strings, numbers, booleans and nested maps, is a
\* record whose type and payload equal the arguments, that has no seq_num,
\* ack_num, message_id or send_timestamp field the call left out, and that
\* has each one the call supplied with the value supplied.
C23_CodecRoundTrip ==
    (codec_call # <<>> /\ codec_message # <<>> /\ C23_Valid(codec_call[1])) =>
        LET call == codec_call[1]
            ret == codec_message[1]
        IN /\ ~call.raised
           /\ ~ret.raised
           /\ ret.value.t = "dict"
           /\ C23_Field(ret.value, "type", call.msg_type)
           /\ C23_Field(ret.value, "payload", call.payload)
           /\ C23_Field(ret.value, "seq_num", call.seq_num)
           /\ C23_Field(ret.value, "ack_num", call.ack_num)
           /\ C23_Field(ret.value, "message_id", call.message_id)
           /\ C23_Field(ret.value, "send_timestamp", call.send_timestamp)
           /\ Len(ret.value.items) =
                2 + Cardinality({k \in {"seq_num", "ack_num", "message_id", "send_timestamp"} :
                                    call[k] # PyNone})

\* A payload with a float, a boolean and a map in a map has made the trip,
\* once with a sequence number and a timestamp and once with neither.
C23_Nested(v) == v.t = "dict" /\ \E i \in DOMAIN v.items : v.items[i][2].t = "dict"

C23_Witness ==
    /\ codec_call # <<>> /\ codec_message # <<>>
    /\ C23_Valid(codec_call[1])
    /\ C23_Nested(codec_call[1].payload)
    /\ codec_call[1].seq_num = PyInt(3)
    /\ codec_call[1].send_timestamp = PyFloat(15)
    /\ codec_call[1].ack_num = PyNone
    /\ ~HasKey(codec_message[1].value, "ack_num")
    /\ PyEq(GetItem(codec_message[1].value, "payload"), codec_call[1].payload)

\* A record that has both a type field and a payload field.
C24_Record(value) ==
    value.t = "dict" /\ HasKey(value, "type") /\ HasKey(value, "payload")

\* The buffers that are empty, no UTF-8 or no JSON.
C24_Undecodable(data) ==
    data = EmptyBytes \/ ~data.utf8 \/ json_loads(data.text).raised

\* C24: for every buffer parse_message raises nothing and returns None or a
\* record with a type field and a payload field, and it returns None for a
\* buffer that is empty, no UTF-8 or no JSON.
C24_DecodeTotal ==
    codec_message # <<>> =>
        /\ ~codec_message[1].raised
        /\ codec_message[1].value = PyNone \/ C24_Record(codec_message[1].value)
        /\ C24_Undecodable(codec_data[1]) => codec_message[1].value = PyNone

\* The buffers that cannot be decoded: no bytes, no UTF-8, no JSON, no type
\* or no payload.  On a stream an empty read is the end of the stream and no
\* record.
C25_Datagrams == Undecodable

C25_Records == Undecodable \ {[kind |-> "empty"]}

\* The connections that are Registered and read their next record.
C25_Reading == {sock \in DOMAIN tcp_clients : conn_pc[sock] = "loop" /\ sock \notin tcp_closed}

C25_Datagram ==
    program = "udp_server" =>
        \A addr \in Addrs : \A data \in C25_Datagrams :
            LET r == handle_udp_message(clients, data, addr)
            IN r.clients = clients /\ r.out = <<>> /\ r.dropped = {}

C25_Record ==
    program = "tcp_server" =>
        \A sock \in C25_Reading : \A data \in C25_Records :
            LET r == TcpHandleRecord(TcpState, sock, conn_username[sock], data)
            IN /\ r.clients = tcp_clients /\ r.order = tcp_order
               /\ r.closed = tcp_closed
               /\ r.out = <<>>
               /\ ~r.raised

C26_Resends(i) == CSchedRetransmit(i) /\ ClientRetransmission(csched_entries[i]) # <<>>

\* C26: once stop_event is set the retransmission scheduler of the client
\* retransmits nothing more of the cycle it was in: no step taken while the
\* signal is set hands a pending datagram to sendto again.
C26_CooperativeShutdown ==
    [][(program = "udp_client" /\ stop_event) =>
           ~(\E i \in 1..Len(csched_entries) : C26_Resends(i))]_vars

\* The kinds of event C27 names, what is broadcast in them, and whom a
\* broadcast may leave out.
C27_Kinds ==
    {MSG_TYPE_MESSAGE, MSG_TYPE_USER_JOINED, MSG_TYPE_USER_LEFT, MSG_TYPE_USER_LIST}

C27_Contents ==
    {[sender |-> "alice", text |-> <<"hi">>], [username |-> "bob"],
     [users |-> {"alice", "bob"}]}

C27_Excluded == Addrs \cup {None}

\* The datagrams a call handed to sendto for `addr`, in order.
C27_SentTo(out, addr) == SelectSeq(out, LAMBDA sent : sent.to = addr)

\* One broadcast, seen from one address of the registry.
C27_Delivery(r, addr, content, original_type, exclude_address) ==
    IF addr \in Registered(clients) /\ addr # exclude_address
    THEN LET seq_num == clients[addr].server_to_client_seq_num
             data == DataMsg(MSG_TYPE_UDP_DATA,
                             UdpDataPayload(content, original_type), seq_num)
         IN /\ C27_SentTo(r.out, addr) = <<Sent(addr, data)>>
            /\ seq_num \notin DOMAIN clients[addr].ack_pending
            /\ r.clients[addr].ack_pending =
                   Put(clients[addr].ack_pending, seq_num, PendingEntry(data, 0))
            /\ r.clients[addr].server_to_client_seq_num = seq_num + 1
            /\ r.clients[addr].username = clients[addr].username
    ELSE /\ C27_SentTo(r.out, addr) = <<>>
         /\ r.clients[addr] = clients[addr]

\* C27: a broadcast of a chat relay, a joined, a left or a user-list event on
\* the datagram server hands exactly one datagram to sendto for each
\* registered address other than the excluded one: a UDP_DATA datagram that
\* wraps the event and carries that address's own next outbound sequence
\* number.  It leaves exactly one new pending entry for it, under that
\* number and with no retry, and moves that address's counter on by one.
\* Nothing is sent to any other address and no other link changes.
C27_ReliableBroadcast ==
    program = "udp_server" =>
        \A original_type \in C27_Kinds : \A content \in C27_Contents :
        \A exclude_address \in C27_Excluded :
            LET r == broadcast_to_clients([clients |-> clients, out |-> <<>>, dropped |-> {}],
                                          content, original_type, exclude_address)
            IN /\ DOMAIN r.clients = DOMAIN clients
               /\ \A addr \in DOMAIN clients :
                      C27_Delivery(r, addr, content, original_type, exclude_address)
               /\ \A i \in DOMAIN r.out : r.out[i].to \in DOMAIN clients

\* Two addresses are registered and their outbound counters differ, and one
\* of them awaits the ack of a joined event that was broadcast to it.
C27_Witness ==
    /\ program = "udp_server"
    /\ \E a, b \in Registered(clients) :
          /\ clients[a].server_to_client_seq_num # clients[b].server_to_client_seq_num
          /\ \E s \in DOMAIN clients[a].ack_pending :
                LET payload == clients[a].ack_pending[s].data.obj.payload
                IN /\ "original_type" \in DOMAIN payload
                   /\ payload.original_type = MSG_TYPE_USER_JOINED

\* What C28 says of the user set after an accepted event of the given kind
\* that names `username` or lists `listed`.
C28_After(users, kind, username, listed) ==
    CASE kind = MSG_TYPE_USER_LIST -> listed
      [] kind = MSG_TYPE_USER_JOINED -> users \cup {username}
      [] kind = MSG_TYPE_USER_LEFT -> users \ {username}
      [] OTHER -> users

\* The events that list or name users.
C28_Names == Users \cup {"dave"}

C28_Lists == {{}, {"alice"}, {"alice", "bob"}, {"carol", "dave"}}

C28_ListsOfNames == {<<>>, <<"alice">>, <<"bob", "alice">>, <<"carol", "dave", "carol">>}

\* The datagram client: the event arrives as reliable data under the
\* sequence number the client expects next.
C28_UdpEvent(kind, content) ==
    FromServer(content, kind, next_expected_server_seq_num)

C28_UdpSet(data) == receive_udp_messages(ClientGlobals, data).current_users_set_udp

C28_UdpPatched ==
    /\ \A listed \in C28_Lists :
          C28_UdpSet(C28_UdpEvent(MSG_TYPE_USER_LIST, [users |-> listed])) = listed
    /\ \A u \in C28_Names : \A kind \in {MSG_TYPE_USER_JOINED, MSG_TYPE_USER_LEFT} :
          C28_UdpSet(C28_UdpEvent(kind, [username |-> u]))
            = C28_After(current_users_set_udp, kind, u, {})

\* A datagram that is none of these events accepted: any other kind of
\* datagram, and these events under a sequence number that is not the next.
C28_UdpOther(data) ==
    \/ data.kind # "json"
    \/ "type" \notin DOMAIN data.obj \/ "payload" \notin DOMAIN data.obj
    \/ /\ "type" \in DOMAIN data.obj /\ "payload" \in DOMAIN data.obj
       /\ \/ data.obj.type # MSG_TYPE_UDP_DATA
          \/ Get(data.obj, "seq_num", NoneInt) # next_expected_server_seq_num
          \/ ~IsDict(data.obj.payload)
          \/ Get(data.obj.payload, "original_type", None)
               \notin {MSG_TYPE_USER_LIST, MSG_TYPE_USER_JOINED, MSG_TYPE_USER_LEFT}

C28_UdpFrame ==
    \A data \in AnyToClient :
        C28_UdpOther(data) => C28_UdpSet(data) = current_users_set_udp

\* The stream client: the event is the record itself.
C28_TcpSet(data) == receive_messages(StreamClientGlobals, data).current_users_set

C28_TcpPatched ==
    /\ \A listed \in C28_ListsOfNames :
          C28_TcpSet(UserListRecord(listed)) = Names(listed)
    /\ \A u \in C28_Names :
          /\ C28_TcpSet(UserJoinedRecord(u))
               = C28_After(current_users_set, MSG_TYPE_USER_JOINED, u, {})
          /\ C28_TcpSet(UserLeftRecord(u))
               = C28_After(current_users_set, MSG_TYPE_USER_LEFT, u, {})

C28_TcpOther(data) ==
    \/ data.kind # "json"
    \/ "type" \notin DOMAIN data.obj \/ "payload" \notin DOMAIN data.obj
    \/ /\ "type" \in DOMAIN data.obj /\ "payload" \in DOMAIN data.obj
       /\ \/ ~IsDict(data.obj.payload)
          \/ data.obj.type
               \notin {MSG_TYPE_USER_LIST, MSG_TYPE_USER_JOINED, MSG_TYPE_USER_LEFT}

C28_TcpFrame ==
    \A data \in ToStreamClient :
        C28_TcpOther(data) => C28_TcpSet(data) = current_users_set

\* C28: in either client, whatever the user set holds, handling an accepted
\* user-list event makes it the set of the names listed, an accepted joined
\* event adds the name it carries and nothing else, an accepted left event
\* removes the name it carries and nothing else (and changes nothing when the
\* name is not in the set), and the handling of any other datagram or record
\* leaves the set as it is.
C28_ClientUserSet ==
    /\ program = "udp_client" => C28_UdpPatched /\ C28_UdpFrame
    /\ program = "tcp_client" => C28_TcpPatched /\ C28_TcpFrame

\* The stream client holds two names after a list and a joined event, one of
\* which a list that arrives now does not have.
C28_Witness ==
    /\ program = "tcp_client"
    /\ current_users_set = {"alice", "bob"}
    /\ client_gui # <<>>
    /\ client_gui[1].call = "update_user_list"
    /\ C28_TcpSet(UserListRecord(<<"carol", "dave", "carol">>)) = {"carol", "dave"}

\* Every entry of a pending table holds a datagram that carries the sequence
\* number it is stored under, and a retry count within 0..MAX_RETRIES.
C29_Entries(pending) ==
    \A s \in DOMAIN pending :
        /\ pending[s].retries \in 0..MAX_RETRIES
        /\ pending[s].data.kind = "json"
        /\ Get(pending[s].data.obj, "seq_num", NoneInt) = s

C29_Snapshot(entries) ==
    \A i \in DOMAIN entries :
        /\ entries[i].retries \in 0..MAX_RETRIES
        /\ Get(entries[i].data.obj, "seq_num", NoneInt) = entries[i].seq_num

C29_Range ==
    /\ \A a \in DOMAIN clients : C29_Entries(clients[a].ack_pending)
    /\ ~IsLive(sched_cur) => C29_Entries(sched_cur.orphan.ack_pending)
    /\ C29_Entries(ack_pending_on_server)
    /\ C29_Snapshot(sched_entries)
    /\ C29_Snapshot(csched_entries)

\* The retransmission of the snapshot entry e on a table that is `before`
\* before and `after` afterwards: the entry that is there afterwards holds
\* the datagram of the snapshot and one retry more, the entry that was there
\* before was the one of the snapshot, and no other entry changes.
C29_Resend(e, before, after) ==
    /\ e.seq_num \in DOMAIN after
    /\ after[e.seq_num].data = e.data
    /\ after[e.seq_num].retries = e.retries + 1
    /\ e.seq_num \in DOMAIN before => before[e.seq_num] = PendingEntry(e.data, e.retries)
    /\ \A s \in DOMAIN after \ {e.seq_num} : s \in DOMAIN before /\ after[s] = before[s]
    /\ DOMAIN before \subseteq DOMAIN after

\* The snapshot entries the schedulers have just left.
C29_ServerEntry == sched_entries[Len(sched_entries) - Len(sched_entries')]

C29_ClientEntry == csched_entries[Len(csched_entries) - Len(csched_entries')]

\* A step of the server's scheduler that retransmits: what it hands to
\* sendto is the datagram of the entry, for the address of the link the
\* entry is pending on.
C29_ServerStep ==
    (/\ program = "udp_server" /\ timeouts' # timeouts /\ sched_pc' # "crashed"
     /\ Len(sched_entries') < Len(sched_entries)
     /\ C29_ServerEntry.retries < MAX_RETRIES) =>
        /\ Retransmission(sched_cur.addr, C29_ServerEntry)
             = Sent(sched_cur.addr, C29_ServerEntry.data)
        /\ sched_cur'.addr = sched_cur.addr
        /\ C29_Resend(C29_ServerEntry, Deref(clients, sched_cur).ack_pending,
                      Deref(clients', sched_cur').ack_pending)

C29_ClientStep ==
    (/\ program = "udp_client" /\ timeouts' # timeouts /\ csched_pc' # "crashed"
     /\ Len(csched_entries') < Len(csched_entries)
     /\ C29_ClientEntry.retries < MAX_RETRIES) =>
        /\ ClientRetransmission(C29_ClientEntry) \in {<<C29_ClientEntry.data>>, <<>>}
        /\ client_pc = "running" => ClientRetransmission(C29_ClientEntry) # <<>>
        /\ C29_Resend(C29_ClientEntry, ack_pending_on_server, ack_pending_on_server')

\* C29: a retransmission, by the server's scheduler or the client's, hands to
\* sendto the very datagram that the pending entry holds since its first
\* send (its type, its sequence number and its payload), for the same peer,
\* and adds exactly 1 to the retry count of that entry and nothing to any
\* other; and in every reachable state the retry count of every pending
\* entry is within 0..MAX_RETRIES.
C29_RetransmissionPreserves ==
    []C29_Range /\ [][C29_ServerStep /\ C29_ClientStep]_vars

\* A datagram of the server has been retransmitted until its retries were
\* used up, and is still the datagram that was sent first.
C29_Witness ==
    /\ program = "udp_server"
    /\ \E a \in DOMAIN clients : \E s \in DOMAIN clients[a].ack_pending :
          /\ clients[a].ack_pending[s].retries = MAX_RETRIES
          /\ clients[a].ack_pending[s].data.obj.seq_num = s

\* An entry is pending on the link of an address of the server, and on the
\* client.
C30_ServerPending(a, s) == a \in DOMAIN clients /\ s \in DOMAIN clients[a].ack_pending

C30_ClientPending(s) == s \in DOMAIN ack_pending_on_server

\* C30: with the schedulers scheduled fairly, every entry that is pending, on
\* the server or on the client, is removed from its table in the end, by an
\* acknowledgment or by the scheduler that abandons it; a client that has
\* set stop_event is shutting down and owes nothing more.
C30_EventuallyDestroyed ==
    /\ \A a \in Linked : \A s \in 0..MaxSeq :
          (program = "udp_server" /\ C30_ServerPending(a, s)) ~> ~C30_ServerPending(a, s)
    /\ \A s \in 0..MaxSeq :
          (program = "udp_client" /\ C30_ClientPending(s))
             ~> (~C30_ClientPending(s) \/ stop_event)

\* An acknowledgment with ack number s from `addr` leaves no entry s pending
\* on the link of `addr`.
C31_Retired(cs, addr, s) ==
    LET r == handle_udp_message(cs, AckMsg(EmptyDict, s), addr)
    IN /\ addr \in DOMAIN r.clients
       /\ s \notin DOMAIN r.clients[addr].ack_pending

\* C31: for every entry of the server's registry, registered or awaiting a
\* rejection error, and every sequence number s pending on it, the
\* acknowledgment of s from that address removes the pending entry.
C31_AckRetiresOnEveryLink ==
    program = "udp_server" =>
      \A addr \in DOMAIN clients : \A s \in DOMAIN clients[addr].ack_pending :
        C31_Retired(clients, addr, s)

\* The scheduler of the server abandons the snapshot entry it has just left:
\* the timeout of an entry whose retries are used up has expired.
C32_Abandons ==
    /\ program = "udp_server" /\ sched_pc = "entries"
    /\ timeouts' # timeouts /\ sched_pc' # "crashed"
    /\ Len(sched_entries') < Len(sched_entries)
    /\ C29_ServerEntry.retries >= MAX_RETRIES

\* The session `after` is the session `before` without the pending entry s.
C32_OnlyEntry(before, after, s) ==
    /\ after.username = before.username
    /\ after.server_to_client_seq_num = before.server_to_client_seq_num
    /\ after.next_expected_seq_num = before.next_expected_seq_num
    /\ DOMAIN after.ack_pending = DOMAIN before.ack_pending \ {s}
    /\ \A t \in DOMAIN after.ack_pending : after.ack_pending[t] = before.ack_pending[t]

\* The abandoned entry was pending for a session the registry holds under a
\* username: the registry holds the same addresses afterwards, the session
\* has lost that entry and nothing else, the other sessions are as they
\* were, and the scheduler goes on with the snapshot, not to line 118.
C32_RegisteredStep ==
    (/\ C32_Abandons /\ IsLive(sched_cur)
     /\ clients[sched_cur.addr].username # None) =>
        /\ sched_pc' = "entries"
        /\ sched_cur' = sched_cur
        /\ DOMAIN clients' = DOMAIN clients
        /\ C29_ServerEntry.seq_num \in DOMAIN clients[sched_cur.addr].ack_pending
        /\ C32_OnlyEntry(clients[sched_cur.addr], clients'[sched_cur.addr],
                         C29_ServerEntry.seq_num)
        /\ \A b \in DOMAIN clients \ {sched_cur.addr} : clients'[b] = clients[b]

\* The abandoned entry was pending in a dict with a username that the
\* registry no longer holds: the registry is as it was.
C32_OrphanStep ==
    (/\ C32_Abandons /\ ~IsLive(sched_cur)
     /\ sched_cur.orphan.username # None) =>
        /\ sched_pc' = "entries"
        /\ clients' = clients

\* C32: when the scheduler of the datagram server abandons a datagram that
\* is pending for a registered session, after MAX_RETRIES retransmissions,
\* it removes that pending entry and nothing else: the session stays in the
\* registry with its username, its two counters and its other pending
\* entries, and no other session changes.
C32_ExhaustionKeepsSession == [][C32_RegisteredStep /\ C32_OrphanStep]_vars

\* The welcome (0) of the only registered session was never acknowledged and
\* has been abandoned after its retransmissions; the user list (1) is still
\* pending and the session is in the registry.
C32_Witness ==
    /\ program = "udp_server" /\ sched_pc = "entries"
    /\ timeouts >= MAX_RETRIES + 1 /\ handled = 1
    /\ IsLive(sched_cur) /\ DOMAIN clients = {sched_cur.addr}
    /\ clients[sched_cur.addr].username # None
    /\ clients[sched_cur.addr].server_to_client_seq_num = 2
    /\ DOMAIN clients[sched_cur.addr].ack_pending = {1}

\* The snapshot entries the client's scheduler may give up in this state:
\* their retries are used up and they are still pending.
C33_Exhausted ==
    {i \in 1..Len(csched_entries) :
       /\ csched_entries[i].retries >= MAX_RETRIES
       /\ csched_entries[i].seq_num \in DOMAIN ack_pending_on_server}

C33_IsRegistration(e) == e.data.obj.type = MSG_TYPE_AUTH_REQUEST

\* An error is handed to the window.
C33_Reported(c) ==
    \E k \in 1..Len(c.gui) : c.gui[k].call = "display_error_message"

\* Giving up the registration request: the error is reported to the window
\* that exists and stop_event is set.
C33_Registration(e, c, has_gui) ==
    /\ has_gui => C33_Reported(c)
    /\ c.stop_event

\* Giving up any other datagram: the error is reported to the window that
\* exists, the entry is removed and no other, stop_event is as it was and so
\* are the two counters and the users known; nothing is sent.
C33_Other(e, c, has_gui) ==
    /\ has_gui => C33_Reported(c)
    /\ c.ack_pending_on_server = Del(ack_pending_on_server, e.seq_num)
    /\ DOMAIN c.ack_pending_on_server = DOMAIN ack_pending_on_server \ {e.seq_num}
    /\ c.stop_event = stop_event
    /\ c.client_seq_num = client_seq_num
    /\ c.next_expected_server_seq_num = next_expected_server_seq_num
    /\ c.current_users_set_udp = current_users_set_udp
    /\ c.out = <<>>

\* C33: when the scheduler of the datagram client gives up a datagram after
\* MAX_RETRIES retransmissions, it reports an error; giving up the
\* registration request sets stop_event, and giving up any other datagram
\* removes that pending entry only and leaves stop_event and the sequence
\* counters as they were.
C33_AbandonmentSeverity ==
    program = "udp_client" =>
      \A i \in C33_Exhausted : \A has_gui \in BOOLEAN :
        LET e == csched_entries[i]
            c == ClientAbandoned(ClientGlobals, e, has_gui)
        IN IF C33_IsRegistration(e) THEN C33_Registration(e, c, has_gui)
                                    ELSE C33_Other(e, c, has_gui)

\* The chat datagram (1) was never acknowledged and has been given up, the
\* registration request (0) is acknowledged, and the client runs on.
C33_Witness ==
    /\ program = "udp_client" /\ client_pc = "running" /\ csched_pc = "entries"
    /\ timeouts >= MAX_RETRIES + 1 /\ handled = 1
    /\ client_seq_num = 2
    /\ DOMAIN ack_pending_on_server = {}
    /\ ~stop_event

\* The data datagrams of `out`, in order, that go to addr.
C34_DataTo(out, addr) ==
    SelectSeq(out, LAMBDA sent : sent.to = addr /\ IsUdpData(sent.data))

\* The registration request of `username` with sequence number s from addr
\* is accepted on the registry cs: the new link expects s + 1 and has
\* numbered what it sent to addr from 0 on; a data datagram s + 1 from addr
\* is then accepted and acknowledged.
C34_ServerAligned(cs, addr, username, s) ==
    LET r == handle_udp_message(cs, AuthRequest(username, s), addr)
        sent == C34_DataTo(r.out, addr)
        first == handle_udp_message(r.clients,
                                    DataMsg(MSG_TYPE_UDP_DATA, Chat(WithIds(<<"hi">>)), s + 1),
                                    addr)
    IN /\ addr \in DOMAIN r.clients
       /\ r.clients[addr].username = username
       /\ r.clients[addr].next_expected_seq_num = s + 1
       /\ Len(sent) = r.clients[addr].server_to_client_seq_num
       /\ Len(sent) > 0
       /\ \A k \in 1..Len(sent) : sent[k].data.obj.seq_num = k - 1
       /\ first.clients[addr].next_expected_seq_num = s + 2
       /\ Sent(addr, AckMsg([status |-> "Server received your data"], s + 1))
            \in Range(first.out)

\* The client that has accepted nothing yet expects 0, has numbered its
\* registration request 0 and what it sent afterwards from 1 on, and accepts
\* the first datagram of the link the server opens for its request.
C34_ClientAligned ==
    (client_pc = "running" /\ accepted_by_client = {}) =>
        /\ next_expected_server_seq_num = 0
        /\ client_seq_num >= 1
        /\ \A d \in to_server :
             /\ d.obj.type = MSG_TYPE_AUTH_REQUEST <=> Get(d.obj, "seq_num", NoneInt) = 0
             /\ d.obj.type = MSG_TYPE_AUTH_REQUEST =>
                  LET r == handle_udp_message(EmptyDict, d, LinkAddr)
                      sent == C34_DataTo(r.out, LinkAddr)
                      got == receive_udp_messages(ClientGlobals, sent[1].data)
                  IN /\ Len(sent) > 0
                     /\ got.next_expected_server_seq_num = 1
                     /\ AckMsg([status |-> "Client received server_seq"], 0)
                          \in Range(got.out)

\* C34: when the datagram server accepts a registration request that
\* carries sequence number s, the new link expects s + 1 from the peer and
\* numbers its own datagrams from 0, so that the data datagram s + 1 of the
\* peer is accepted, and so is the server's datagram 0 by the client, whose
\* counter of expected server datagrams starts at 0.
C34_SequenceAlignment ==
    program = "link" =>
      /\ \A addr \in Addrs : \A username \in Users : \A s \in SeqNums :
           ~UsernameTaken(clients, username) =>
               C34_ServerAligned(clients, addr, username, s)
      /\ C34_ClientAligned

\* Client and server have each accepted the first data datagram of the
\* other after the registration.
C34_Witness ==
    /\ program = "link"
    /\ LinkAddr \in DOMAIN clients /\ clients[LinkAddr].username = username_global
    /\ 1 \in accepted_by_server
    /\ 0 \in accepted_by_client

\* The user lists among the datagrams of `out` that go to addr.
C35_ListsTo(out, addr) ==
    {d \in SentTo(out, addr) :
       /\ IsUdpData(d)
       /\ Get(d.obj.payload, "original_type", None) = MSG_TYPE_USER_LIST}

\* How many sockets the registry cs of the stream server holds under name,
\* and how many places of the list hold it.
C35_Sessions(cs, name) == Cardinality({s \in DOMAIN cs : cs[s] = name})

C35_Places(users, name) == Cardinality({k \in DOMAIN users : users[k] = name})

\* The datagram server: the registration of a free username from any
\* address, seen or not, sends one user list to that address; it names the
\* sessions that hold a username once the new session is in the registry,
\* the new one among them, which are the other sessions that held one before
\* and the new one.
C35_Datagram ==
    program = "udp_server" =>
      \A addr \in Addrs : \A username \in C13_Names \ HeldNames :
        \A seq_num \in OptSeqNums :
          LET r == handle_udp_message(clients, AuthRequest(username, seq_num), addr)
          IN \E d \in C35_ListsTo(r.out, addr) :
               LET users == d.obj.payload.message_content.users
               IN /\ C35_ListsTo(r.out, addr) = {d}
                  /\ users = {r.clients[a].username : a \in Registered(r.clients)}
                  /\ users = {username}
                               \cup {clients[a].username : a \in Registered(clients) \ {addr}}
                  /\ username \in users
                  /\ None \notin users

\* The stream server: the user list sent to the connection that registers
\* has one place for every socket of the registry at that moment, under the
\* username of that socket, the new one among them.
C35_Stream ==
    program = "tcp_server" =>
      \A sock \in Registering :
          LET username == conn_username[sock]
              r == TcpRegistered(TcpState, sock, username)
          IN \A i \in PlacesTo(r.out, sock) :
               r.out[i].data.obj.type = MSG_TYPE_USER_LIST =>
                 LET users == r.out[i].data.obj.payload.users
                 IN /\ Len(users) = Cardinality(DOMAIN r.clients)
                    /\ \A name \in Users \cup {None, ""} :
                         C35_Places(users, name) = C35_Sessions(r.clients, name)
                    /\ C35_Places(users, username) >= 1

\* C35: the user list sent to a session that has just registered names
\* exactly the sessions registered at that moment, the new session among
\* them, and no peer that is not registered or was rejected.
C35_UserListSnapshot == C35_Datagram /\ C35_Stream

\* On the datagram server a peer has registered while another was
\* registered and a third was rejected: the user list pending for it names
\* the two registered users.
C35_Witness ==
    /\ program = "udp_server"
    /\ \E a \in DOMAIN clients : clients[a].username = None
    /\ \E addr \in Registered(clients) :
         /\ 1 \in DOMAIN clients[addr].ack_pending
         /\ Carries(clients[addr].ack_pending[1].data,
                    [users |-> HeldNames], MSG_TYPE_USER_LIST)
         /\ Cardinality(HeldNames) = 2

\* The datagrams that are no registration request.
C36_NoRequest ==
    {data \in AnyToServer :
       data.kind = "json" => data.obj.type # MSG_TYPE_AUTH_REQUEST}

\* C36: a datagram that is no registration request and comes from an
\* address that has no registered session, unknown to the registry or
\* entered without a username, is ignored: nothing is sent, to the sender
\* or to anybody else, and the registry with every link in it is as it was.
C36_UnregisteredIgnored ==
    program = "udp_server" =>
      \A addr \in Addrs \ Registered(clients) : \A data \in C36_NoRequest :
        LET r == handle_udp_message(clients, data, addr)
        IN /\ r.out = <<>>
           /\ r.clients = clients
           /\ r.dropped = {}

\* A session is registered, a rejected peer is in the registry without a
\* username, its rejection pending, and a third address is unknown.
C36_Witness ==
    /\ program = "udp_server"
    /\ Registered(clients) # {}
    /\ Addrs \ DOMAIN clients # {}
    /\ \E a \in DOMAIN clients :
         clients[a].username = None /\ DOMAIN clients[a].ack_pending # {}

\* The answers to a registration request that report an error.
C37_IsAuthError(data) ==
    /\ data.kind = "json"
    /\ data.obj.type = MSG_TYPE_AUTH_RESPONSE
    /\ "error" \in DOMAIN data.obj.payload

\* The registration request of the registered peer is among the datagrams
\* the channel may deliver (again): the server answers it with no error and
\* keeps the session of the peer, under its username.
C37_ServerTolerates ==
    \A d \in to_server :
      (/\ d.obj.type = MSG_TYPE_AUTH_REQUEST
       /\ LinkAddr \in Registered(clients)
       /\ clients[LinkAddr].username = d.obj.payload.username) =>
          LET r == handle_udp_message(clients, d, LinkAddr)
          IN /\ \A k \in DOMAIN r.out : ~C37_IsAuthError(r.out[k].data)
             /\ LinkAddr \in Registered(r.clients)
             /\ r.clients[LinkAddr].username = clients[LinkAddr].username

\* No datagram the channel may deliver to the client of the registered
\* peer makes it set stop_event.
C37_ClientStays ==
    (/\ LinkAddr \in Registered(clients)
     /\ client_pc = "running" /\ receive_pc = "recv" /\ ~stop_event) =>
        \A d \in to_client : ~receive_udp_messages(ClientGlobals, d).stop_event

\* C37: when the registration request of a peer that is registered arrives
\* again under the same username, retransmitted or duplicated by the
\* network, the server does not answer with the error of a taken username,
\* and the peer stays registered and connected.
C37_RedeliveredRegistration ==
    program = "link" => C37_ServerTolerates /\ C37_ClientStays

\* The datagram with sequence number n is among those in flight.
C38_InFlight(flight, n) ==
    \E d \in flight : d.kind = "json" /\ Get(d.obj, "seq_num", NoneInt) = n

\* The link is live: the server holds the session of the client, and the
\* client runs and has not set stop_event.
C38_Live ==
    /\ LinkAddr \in Registered(clients)
    /\ client_pc = "running" /\ receive_pc = "recv" /\ ~stop_event

\* The server waits for n, which the client has issued.
C38_ToServer ==
    LET n == clients[LinkAddr].next_expected_seq_num
    IN n < client_seq_num =>
         n \in DOMAIN ack_pending_on_server \/ C38_InFlight(to_server, n)

\* The client waits for n, which the server has issued.
C38_ToClient ==
    LET n == next_expected_server_seq_num
    IN n < clients[LinkAddr].server_to_client_seq_num =>
         n \in DOMAIN clients[LinkAddr].ack_pending \/ C38_InFlight(to_client, n)

\* C38: on a live link, the sequence number the receiver waits for, once
\* the sender has issued it, is still pending at the sender or in flight, so
\* that it can still arrive.
C38_NoPermanentStall == (program = "link" /\ C38_Live) => C38_ToServer /\ C38_ToClient

\* The sessions of cs whose username is no longer held at their address in
\* the registry `after`.
C39_Departed(cs, after) ==
    {a \in Registered(cs) :
       a \notin DOMAIN after \/ after[a].username # cs[a].username}

\* A left event that names username is among the datagrams of `out` to b.
C39_LeftSentTo(out, b, username) ==
    \E d \in SentTo(out, b) :
        /\ IsUdpData(d)
        /\ Get(d.obj.payload, "original_type", None) = MSG_TYPE_USER_LEFT
        /\ Get(Get(d.obj.payload, "message_content", EmptyDict), "username", None)
             = username

\* C39: whenever the handling of a datagram ends the hold of a registered
\* session on its username, the session removed or replaced by a new
\* registration of its address, a left event that names the username is
\* sent to every other session that is registered afterwards.
C39_DepartureAnnounced ==
    program = "udp_server" =>
      \A addr \in Addrs : \A data \in AnyToServer :
        LET r == handle_udp_message(clients, data, addr)
        IN \A a \in C39_Departed(clients, r.clients) :
             \A b \in Registered(r.clients) \ {a} :
               C39_LeftSentTo(r.out, b, clients[a].username)

\* The usernames that the left events among the datagrams of `out` name.
C40_LeftNames(out) ==
    {Get(Get(out[k].data.obj.payload, "message_content", EmptyDict), "username", None) :
       k \in {j \in DOMAIN out :
                /\ IsUdpData(out[j].data)
                /\ Get(out[j].data.obj.payload, "original_type", None)
                     = MSG_TYPE_USER_LEFT}}

\* C40: every left event the datagram server sends on handling a datagram
\* names the username the registry held for the sender's address, whose
\* session the handling removed, whatever username the payload of the leave
\* notice carries.
C40_LeftNamesRemoved ==
    program = "udp_server" =>
      \A addr \in Addrs : \A data \in AnyToServer :
        LET r == handle_udp_message(clients, data, addr)
        IN \A username \in C40_LeftNames(r.out) :
             /\ addr \in Registered(clients)
             /\ addr \notin DOMAIN r.clients
             /\ username = clients[addr].username

====
